---- MODULE Spec2Model ----
(***************************************************************************)
(* A model of the task-list reconciliation tool "og":                      *)
(*   - apply_logic.rs     apply_changes (the merge engine)                 *)
(*   - markdown_parser.rs parse_markdown_document_to_tasks (identifier     *)
(*                        allocation and tree assembly) and                *)
(*                        parse_markdown_line_to_task                      *)
(*   - markdown_formatter.rs format_tasks_to_markdown_document             *)
(*   - main.rs            the apply command (load the store, parse, merge, *)
(*                        write the store or print the dry-run summary)    *)
(* Option<T> is modelled as a sequence of length 0 (None) or 1 (Some).     *)
(* Calendar dates are modelled as day numbers.                             *)
(***************************************************************************)
EXTENDS Integers, Sequences, FiniteSets, TLC

VARIABLES
    existing_tasks,        \* the prior collection handed to apply_changes
    markdown_tasks,        \* the parsed forest handed to apply_changes
    default_created_date,  \* the date argument (main.rs:89)
    clock,                 \* the wall-clock date, what Local::now() returns
    pc,                    \* position of the run
    today,                 \* the date apply_changes read at apply_logic.rs:24
    final_tasks,           \* result of the first apply_changes run
    rerun_tasks,           \* result of a second run on the same three inputs
    markdown_document,     \* the document handed to the parser
    parse_result,          \* what parse_markdown_document_to_tasks returned
    formatted_document,    \* the rendering of the parsed forest
    reparse_result,        \* what the parser returned for the rendering
    again_tasks,           \* applying the same forest to final_tasks: date, result
    store_file,            \* the lines of the file named by --target-json
    from_format,           \* the value of --from, in lower case
    dry_run,               \* whether --dry-run was given
    stdout,                \* what the apply command printed
    loop_items,            \* the items the assembly loop has still to take
    loop_result,           \* result_tasks while the assembly loop runs
    loop_stack,            \* parent_ref_stack while the assembly loop runs
    clock_reads,           \* the calls of Local::now() of the last parse, in
                           \* the order made, each with the day it returned
    overflow_checks        \* whether the program was built with overflow
                           \* checks (the debug and test profiles) or
                           \* without (the release profile)

vars == <<existing_tasks, markdown_tasks, default_created_date, clock, pc,
          today, final_tasks, rerun_tasks, markdown_document, parse_result,
          formatted_document, reparse_result, again_tasks, store_file,
          from_format, dry_run, stdout, loop_items, loop_result, loop_stack,
          clock_reads, overflow_checks>>

\* the variables of the apply command
command_vars == <<store_file, from_format, dry_run, stdout>>

\* the variables of the tree assembly loop
assembly_vars == <<loop_items, loop_result, loop_stack>>

-----------------------------------------------------------------------------
(* Bounds of the model *)

\* identifiers of the enumerated prior and new tasks range over 1..MaxId
MaxId == 2
\* longest enumerated prior collection
MaxPrior == 2
\* longest enumerated new forest (root tasks)
MaxMd == 2
\* the wall clock runs over the days 1..MaxClock
MaxClock == 2
\* longest enumerated document, in lines
MaxLines == 3
\* the id attributes written in the enumerated lines range over 0..MaxTokId
MaxTokId == 2

\* how many times the day may change while one command runs
MaxDayChanges == 1

-----------------------------------------------------------------------------
(* Option and Task (task_model.rs) *)

None == <<>>

Some(v) == <<v>>

\* task_model.rs:7-38
Task(id, name, status, priority, created, display_order, due, updated, completed, project, contexts, notes, tags, subtasks, extra) ==
    [ id |-> id, name |-> name, status |-> status, priority |-> priority,
      created |-> created, display_order |-> display_order,
      due |-> due, updated |-> updated, completed |-> completed,
      project |-> project, contexts |-> contexts, notes |-> notes,
      tags |-> tags, subtasks |-> subtasks, extra |-> extra,
      repeat |-> None ]

\* The forest read depth-first: a task, then its subtasks, then its siblings.
RECURSIVE Flatten(_)
Flatten(tasks) ==
    IF tasks = <<>> THEN <<>>
    ELSE LET t == Head(tasks) IN
         <<t>> \o (IF t.subtasks = None THEN <<>> ELSE Flatten(t.subtasks[1]))
              \o Flatten(Tail(tasks))

Range(s) == { s[k] : k \in DOMAIN s }

RootIds(tasks) == { tasks[k].id : k \in DOMAIN tasks }

AllIds(tasks) == RootIds(Flatten(tasks))

-----------------------------------------------------------------------------
(* apply_logic.rs *)

\* apply_logic.rs:27-30: collecting (id, task) pairs into a HashMap keeps, for
\* an id that occurs more than once, the last task inserted.
existing_tasks_map(existing_tasks_vec) ==
    [ i \in RootIds(existing_tasks_vec) |->
        existing_tasks_vec[
            CHOOSE k \in DOMAIN existing_tasks_vec :
                /\ existing_tasks_vec[k].id = i
                /\ \A j \in DOMAIN existing_tasks_vec :
                       existing_tasks_vec[j].id = i => j <= k ] ]

SetDisplayOrder_counting_down(md_task, next_display_order) ==
    [md_task EXCEPT !.display_order = 0 - next_display_order]

\* apply_logic.rs:43
SetDisplayOrder(md_task, next_display_order) ==
    [md_task EXCEPT !.display_order = next_display_order]

UpdateExisting_keep_when_omitted(existing_task, md_task, now) ==
    [existing_task EXCEPT
        !.name = md_task.name, !.status = md_task.status,
        !.priority = md_task.priority,
        !.due = IF md_task.due = None THEN @ ELSE md_task.due,
        !.completed = md_task.completed, !.notes = md_task.notes,
        !.project = md_task.project, !.contexts = md_task.contexts,
        !.tags = md_task.tags, !.subtasks = md_task.subtasks,
        !.updated = Some(now), !.display_order = md_task.display_order]

UpdateExisting_keeping_subtasks(existing_task, md_task, now) ==
    [existing_task EXCEPT
        !.name = md_task.name, !.status = md_task.status,
        !.priority = md_task.priority, !.due = md_task.due,
        !.completed = md_task.completed, !.notes = md_task.notes,
        !.project = md_task.project, !.contexts = md_task.contexts,
        !.tags = md_task.tags,
        !.updated = Some(now), !.display_order = md_task.display_order]

\* apply_logic.rs:50-78: the matched branch
UpdateExisting(existing_task, md_task, now) ==
    [existing_task EXCEPT
        !.name = md_task.name, !.status = md_task.status,
        !.priority = md_task.priority, !.due = md_task.due,
        !.completed = md_task.completed, !.notes = md_task.notes,
        !.project = md_task.project, !.contexts = md_task.contexts,
        !.tags = md_task.tags, !.subtasks = md_task.subtasks,
        !.updated = Some(now), !.display_order = md_task.display_order]

NewTask_not_stamped(md_task, now) == md_task

NewTask_created_now(md_task, now) ==
    [md_task EXCEPT !.updated = Some(now), !.created = now]

\* apply_logic.rs:91: the new-task branch
NewTask(md_task, now) == [md_task EXCEPT !.updated = Some(now)]

\* apply_logic.rs:41-94: the loop over markdown_tasks_vec; k is the position
\* of the task being processed, which is also next_display_order.
RECURSIVE MergeLoop(_, _, _, _, _)
MergeLoop(map, markdown_tasks_vec, k, now, acc) ==
    IF k > Len(markdown_tasks_vec) THEN acc
    ELSE LET md_task == SetDisplayOrder(markdown_tasks_vec[k], k) IN
         IF md_task.id \in DOMAIN map
         THEN MergeLoop([ i \in DOMAIN map \ {md_task.id} |-> map[i] ],
                        markdown_tasks_vec, k + 1, now,
                        Append(acc, UpdateExisting(map[md_task.id], md_task, now)))
         ELSE MergeLoop(map, markdown_tasks_vec, k + 1, now,
                        Append(acc, NewTask(md_task, now)))

\* Stable insertion of t behind every element whose key is not larger.
RECURSIVE InsertByKey(_, _)
InsertByKey(sorted, t) ==
    IF sorted = <<>> THEN <<t>>
    ELSE IF Head(sorted).display_order <= t.display_order
         THEN <<Head(sorted)>> \o InsertByKey(Tail(sorted), t)
         ELSE <<t>> \o sorted

\* apply_logic.rs:105: final_tasks.sort_by_key(|t| t.display_order), stable
RECURSIVE sort_by_key(_)
sort_by_key(tasks) ==
    IF tasks = <<>> THEN <<>>
    ELSE InsertByKey(sort_by_key(SubSeq(tasks, 1, Len(tasks) - 1)),
                     tasks[Len(tasks)])

Renumber_from_zero(tasks) ==
    IF tasks = <<>> THEN <<>>
    ELSE [ i \in DOMAIN tasks |-> [tasks[i] EXCEPT !.display_order = i - 1] ]

\* apply_logic.rs:109-111
Renumber(tasks) ==
    IF tasks = <<>> THEN <<>>
    ELSE [ i \in DOMAIN tasks |-> [tasks[i] EXCEPT !.display_order = i] ]

apply_changes_keeping_unmatched(existing_tasks_vec, markdown_tasks_vec, _default_created_date, now) ==
    Renumber(sort_by_key(
        MergeLoop(existing_tasks_map(existing_tasks_vec),
                  markdown_tasks_vec, 1, now, <<>>)
        \o SelectSeq(existing_tasks_vec,
                     LAMBDA t : t.id \notin RootIds(markdown_tasks_vec))))

\* apply_logic.rs:18-115.  `now` is the value of Local::now().date_naive()
\* at line 24; the date argument is not read.
apply_changes(existing_tasks_vec, markdown_tasks_vec, _default_created_date, now) ==
    Renumber(sort_by_key(
        MergeLoop(existing_tasks_map(existing_tasks_vec),
                  markdown_tasks_vec, 1, now, <<>>)))

-----------------------------------------------------------------------------
(* The enumerated inputs of the merge *)

NextId(i) == (i % MaxId) + 1

\* no apply command is involved: no store file, no option, nothing printed
CommandIdle ==
    /\ store_file = <<>>
    /\ from_format = "markdown"
    /\ dry_run = FALSE
    /\ stdout = [summary |-> <<>>, markdown |-> <<>>]

\* the tree assembly loop is not followed step by step
AssemblyIdle ==
    /\ loop_items = <<>>
    /\ loop_result = <<>>
    /\ loop_stack = <<>>

\* A stored record with no optional field, and one with every optional field,
\* an extension payload and a nested subtask that has its own payload.
PriorTask(i, rich) ==
    IF rich
    THEN Task(i, "Old", "DONE", "A", 0, 7, Some(5), Some(0), Some(0),
              Some("X"), Some(<<"work">>), Some(<<"old note">>), Some(<<"t">>),
              Some(<< Task(NextId(i), "OldChild", "PENDING", "N", 0, 8,
                           None, None, None, None, None, None, None, None,
                           Some("child payload")) >>),
              Some("payload"))
    ELSE Task(i, "A", "open", "N", 0, i, None, None, None,
              None, None, None, None, None, None)

\* markdown_parser.rs:183-188: a parsed root task as the parser leaves it:
\* either a bare line (the creation date defaulted) or a line with every
\* attribute typed and a subtask line below it.  `order` is the count of
\* task lines up to the line of the root task, which the parser writes
\* into display_order; the subtask line is the next task line.
MdTask(i, rich, dflt, order) ==
    IF rich
    THEN Task(i, "New", "done", "B", 4, order, Some(6), Some(3), Some(3),
              Some("Y"), Some(<<"home">>), Some(<<"new note">>), Some(<<"u">>),
              Some(<< Task(NextId(i), "NewChild", "open", "N", dflt, order + 1,
                           None, None, None, None, None, None, None, None,
                           None) >>),
              None)
    ELSE Task(i, "A", "open", "N", dflt, order, None, None, None,
              None, None, None, None, None, None)

SeqsUpTo(S, n) == UNION { [1..m -> S] : m \in 0..n }

PriorCollections ==
    SeqsUpTo({ PriorTask(i, r) : i \in 1..MaxId, r \in BOOLEAN }, MaxPrior)

\* the root lines of a document: the identifier written on each and
\* whether it is the line with every attribute and a subtask line below it
MdShapes == SeqsUpTo([i : 1..MaxId, rich : BOOLEAN], MaxMd)

\* markdown_parser.rs:183-184: the number of task lines in front of the
\* k-th root line
RECURSIVE TaskLinesBefore(_, _)
TaskLinesBefore(shape, k) ==
    IF k = 1 THEN 0
    ELSE TaskLinesBefore(shape, k - 1) + (IF shape[k - 1].rich THEN 2 ELSE 1)

\* main.rs:128: the forests the parser returns for the documents of
\* MdShapes, the task lines numbered 1, 2, 3, ... in document order
MdForests(dflt) ==
    { [ k \in DOMAIN shape |->
          MdTask(shape[k].i, shape[k].rich, dflt, TaskLinesBefore(shape, k) + 1) ] :
        shape \in MdShapes }

-----------------------------------------------------------------------------
(* Specification of the merge: main.rs:89 reads the clock into the date     *)
(* argument, the inputs are loaded, and apply_changes runs; a second run on *)
(* the same inputs follows.  The wall clock advances on its own.            *)

Init ==
    /\ clock = 1
    /\ default_created_date = clock
    /\ existing_tasks \in PriorCollections
    /\ markdown_tasks \in MdForests(default_created_date)
    /\ pc = "start"
    /\ today = 0
    /\ final_tasks = <<>>
    /\ rerun_tasks = <<>>
    /\ markdown_document = <<>>
    /\ parse_result = [ok |-> FALSE, panicked |-> FALSE, tasks |-> <<>>]
    /\ formatted_document = <<>>
    /\ reparse_result = [ok |-> FALSE, panicked |-> FALSE, tasks |-> <<>>]
    /\ again_tasks = [today |-> 0, tasks |-> <<>>]
    /\ CommandIdle
    /\ AssemblyIdle
    /\ clock_reads = <<>>
    /\ overflow_checks \in BOOLEAN

\* the day changes
Tick ==
    /\ clock < MaxClock
    /\ clock' = clock + 1
    /\ UNCHANGED <<existing_tasks, markdown_tasks, default_created_date, pc,
                   today, final_tasks, rerun_tasks, markdown_document,
                   parse_result,
                   formatted_document, reparse_result>>
    /\ UNCHANGED <<again_tasks, command_vars, assembly_vars, clock_reads>>
    /\ UNCHANGED overflow_checks

\* main.rs:129
Apply ==
    /\ pc = "start"
    /\ today' = clock
    /\ final_tasks' = apply_changes(existing_tasks, markdown_tasks,
                                    default_created_date, clock)
    /\ pc' = "applied"
    /\ UNCHANGED <<existing_tasks, markdown_tasks, default_created_date,
                   clock, rerun_tasks, markdown_document, parse_result,
                   formatted_document, reparse_result>>
    /\ UNCHANGED <<again_tasks, command_vars, assembly_vars, clock_reads>>
    /\ UNCHANGED overflow_checks

\* apply_changes called once more with the same three arguments
Reapply ==
    /\ pc = "applied"
    /\ rerun_tasks' = apply_changes(existing_tasks, markdown_tasks,
                                    default_created_date, clock)
    /\ pc' = "reapplied"
    /\ UNCHANGED <<existing_tasks, markdown_tasks, default_created_date,
                   clock, today, final_tasks, markdown_document, parse_result,
                   formatted_document, reparse_result>>
    /\ UNCHANGED <<again_tasks, command_vars, assembly_vars, clock_reads>>
    /\ UNCHANGED overflow_checks

\* apply_changes called with its own output as the prior collection and the
\* same forest
ApplyAgain ==
    /\ pc \in {"applied", "reapplied"}
    /\ again_tasks' = [today |-> clock,
                       tasks |-> apply_changes(final_tasks, markdown_tasks,
                                               default_created_date, clock)]
    /\ pc' = "again"
    /\ UNCHANGED <<existing_tasks, markdown_tasks, default_created_date,
                   clock, today, final_tasks, rerun_tasks, markdown_document,
                   parse_result, formatted_document, reparse_result,
                   command_vars, assembly_vars, clock_reads>>
    /\ UNCHANGED overflow_checks

Next == Tick \/ Apply \/ Reapply \/ ApplyAgain

Spec == Init /\ [][Next]_vars

Applied == pc \in {"applied", "reapplied"}

-----------------------------------------------------------------------------
(* markdown_parser.rs *)

(* A line of the document is modelled by the parts the parser looks at:    *)
(*   spaces       the number of leading spaces                              *)
(*   kind         "task" when the text after the indentation begins with    *)
(*                "- [", "blank" for an empty line, "text" for any other    *)
(*   status_char  the character between the brackets of the status marker   *)
(*   priority     None, or Some of the letters written as "(A)"             *)
(*   bracket      whether the name is written [[name]]                      *)
(*   name         the text written between [[ and ]]; for a name written    *)
(*                without brackets, the whole text behind the marker (and   *)
(*                the priority), attributes included                        *)
(*   attrs        the attribute tokens written on the line, in order; a     *)
(*                token is a record with its key k and, for an id, the      *)
(*                number v written, for a date, the DateText text written,  *)
(*                for a +project, @context or #tag, the word written, for   *)
(*                a note, the pieces of the text written between the quotes *)

\* the value of an id token whose digits do not fit an i64
Huge == -1

\* The identifiers are i64.  TLC counts in 32 bits, so the two ends of the
\* i64 range are written as the ends of TLC's range: i64_MAX stands for
\* 9223372036854775807 (the token id:9223372036854775807 is IdTok(i64_MAX),
\* id:9223372036854775806 is IdTok(i64_MAX - 1)) and i64_MIN for
\* -9223372036854775808.  The identifiers written in the enumerated
\* documents are small numbers or these two ends, nothing between.
i64_MAX == 2147483647

i64_MIN == (-i64_MAX) - 1

\* markdown_parser.rs:7-9
calculate_indent_level(line) == line.spaces \div 4

IsTaskLine_any_text(line) == line.kind # "blank"

\* markdown_parser.rs:41,160,177: the lines the loops do not skip
IsTaskLine(line) == line.kind = "task"

\* markdown_parser.rs:255: the character class of STATUS_MARKER_RE_STR
StatusMarkerClass == {" ", "x", "p", "w", "?", ">", "c", "-"}

\* markdown_parser.rs:25-31,255-257,359-367: whether base_re captures the
\* line: a marker of the class between [ ], and at least one character of name
BaseMatches(line) ==
    /\ line.status_char \in StatusMarkerClass
    /\ line.name # ""

\* The place of the first ]] inside a text: None when the text has none,
\* else the text in front of it and the attribute tokens behind it.
FirstClosingBrackets(text) ==
    IF text = "see [[A]] id:2"
    THEN Some([head |-> "see [[A", tail |-> <<[k |-> "id", v |-> 2]>>])
    ELSE None

\* markdown_parser.rs:257,382: the attributes_str capture.  A name written
\* without [[ ]] is matched by the greedy task_name_plain group, which takes
\* the rest of the line and leaves attributes_str empty.  Behind [[ the lazy
\* task_name group stops at the first ]], so what follows a ]] inside the
\* written name is part of attributes_str.
attributes_str(line) ==
    IF BaseMatches(line) /\ line.bracket
    THEN (IF FirstClosingBrackets(line.name) = None THEN <<>>
          ELSE FirstClosingBrackets(line.name)[1].tail) \o line.attrs
    ELSE <<>>

\* markdown_parser.rs:257,373-380: the task_name capture, or else the
\* task_name_plain capture
task_name(line) ==
    IF line.bracket /\ FirstClosingBrackets(line.name) # None
    THEN FirstClosingBrackets(line.name)[1].head
    ELSE line.name

\* markdown_parser.rs:259,167-168,387-388: id_re.captures finds the first
\* id:<digits> of the attribute string
FirstIdToken(attrs) ==
    LET ids == SelectSeq(attrs, LAMBDA tok : tok.k = "id") IN
    IF ids = <<>> THEN None ELSE Some(ids[1].v)

\* str::parse::<i64>() on a run of digits: Err when it does not fit
ParseI64(v) == IF v = Huge THEN None ELSE Some(v)

\* chrono::NaiveDate: a date is the number of its day, counted from
\* 1970-01-01 as day 0 (the proleptic Gregorian calendar)
DaysFromCivil(y, m, d) ==
    LET yy == IF m <= 2 THEN y - 1 ELSE y
        era == yy \div 400
        yoe == yy - era * 400
        mp == IF m > 2 THEN m - 3 ELSE m + 9
        doy == (153 * mp + 2) \div 5 + d - 1
        doe == yoe * 365 + yoe \div 4 - yoe \div 100 + doy
    IN era * 146097 + doe - 719468

\* the year, month and day of a day number (Datelike, and the fields that
\* format("%Y-%m-%d") prints)
CivilFromDays(z) ==
    LET zz == z + 719468
        era == zz \div 146097
        doe == zz - era * 146097
        yoe == (doe - doe \div 1460 + doe \div 36524 - doe \div 146096) \div 365
        doy == doe - (365 * yoe + yoe \div 4 - yoe \div 100)
        mp == (5 * doy + 2) \div 153
        m == IF mp < 10 THEN mp + 3 ELSE mp - 9
    IN [y |-> yoe + era * 400 + (IF m <= 2 THEN 1 ELSE 0),
        m |-> m,
        d |-> doy - (153 * mp + 2) \div 5 + 1]

DaysInMonth(y, m) ==
    IF m \in {4, 6, 9, 11} THEN 30
    ELSE IF m # 2 THEN 31
    ELSE IF y % 4 = 0 /\ (y % 100 # 0 \/ y % 400 = 0) THEN 29 ELSE 28

\* NaiveDate::from_ymd_opt, and the range check of NaiveDate::parse_from_str
from_ymd_opt(y, m, d) ==
    IF m \in 1..12 /\ d \in 1..DaysInMonth(y, m)
    THEN Some(DaysFromCivil(y, m, d)) ELSE None

\* the text of a date value, by its spelling: form is "Y-M-D", "Y/M/D",
\* "Y-M/D" (a four-digit year and one separator of each kind), "M/D", or
\* "quotes" for a pair of double quotes; y, m, d are the numbers written
DateText(form, y, m, d) == [form |-> form, y |-> y, m |-> m, d |-> d]

parse_date_or_empty_attr_without_two_part(text, now) ==
    CASE text.form = "Y-M-D" -> from_ymd_opt(text.y, text.m, text.d)
      [] text.form = "Y/M/D" -> from_ymd_opt(text.y, text.m, text.d)
      [] OTHER -> None

\* markdown_parser.rs:314-344; now is the wall clock that Local::now() reads
\* at line 335
parse_date_or_empty_attr(text, now) ==
    CASE text.form = "quotes" -> None
      [] text.form = "Y-M-D" -> from_ymd_opt(text.y, text.m, text.d)
      [] text.form = "Y/M/D" -> from_ymd_opt(text.y, text.m, text.d)
      [] text.form = "M/D" -> from_ymd_opt(CivilFromDays(now).y, text.m, text.d)
      [] OTHER -> None

\* markdown_parser.rs:265-268: what the regex of a date attribute captures.
\* The pattern of created has no alternative for a pair of quotes.
DateCaptured(key, text) == key = "created" => text.form # "quotes"

\* markdown_parser.rs:394,400,404,418: Regex::captures finds the first
\* occurrence of the attribute that its pattern matches
FirstDateToken(attrs, key) ==
    LET toks == SelectSeq(attrs, LAMBDA tok : tok.k = key /\ DateCaptured(key, tok.text))
    IN IF toks = <<>> THEN None ELSE Some(toks[1].text)

\* markdown_parser.rs:400-420: captures(..).and_then(parse_date_or_empty_attr)
DateAttr(attrs, key, now) ==
    IF FirstDateToken(attrs, key) = None THEN None
    ELSE parse_date_or_empty_attr(FirstDateToken(attrs, key)[1], now)

\* markdown_parser.rs:392-418: the order in which the date attributes of a
\* line are parsed
DateKeySeq == <<"created", "due", "updated", "completed">>

\* markdown_parser.rs:331-335: Local::now() is called for a captured value
\* of two numbers around one slash, whether or not they are a month and day
ReadsClock(attrs, key) ==
    /\ FirstDateToken(attrs, key) # None
    /\ FirstDateToken(attrs, key)[1].form = "M/D"

\* char::to_ascii_lowercase, on the characters the documents use
to_ascii_lowercase(ch) ==
    CASE ch = "X" -> "x"
      [] ch = "P" -> "p"
      [] ch = "W" -> "w"
      [] ch = "C" -> "c"
      [] OTHER -> ch

\* markdown_parser.rs:277-292
map_status_char_to_string(status_char) ==
    LET lowered == to_ascii_lowercase(status_char) IN
    CASE lowered = " " -> "open"
      [] lowered = "p" -> "pending"
      [] lowered = ">" -> "doing"
      [] lowered = "w" -> "waiting"
      [] lowered = "x" -> "done"
      [] lowered = "c" -> "cancelled"
      [] lowered = "?" -> "unknown"
      [] OTHER -> "unknown"

\* a +word, @word or #word token of the attribute string
WordTok(key, word) == [k |-> key, word |-> word]

\* markdown_parser.rs:428-440: captures_iter collects every @word (or #word)
\* of the attribute string, in the order written
CollectWords(attrs, key) ==
    LET toks == SelectSeq(attrs, LAMBDA tok : tok.k = key)
    IN [j \in DOMAIN toks |-> toks[j].word]

\* markdown_parser.rs:420-426: project_re.captures finds the first +word
FirstProject(attrs) ==
    IF CollectWords(attrs, "project") = <<>> THEN None
    ELSE Some(CollectWords(attrs, "project")[1])

AbsentWhenEmpty_always_present(words) == Some(words)

\* markdown_parser.rs:461,463: an empty collection is left absent
AbsentWhenEmpty(words) == IF words = <<>> THEN None ELSE Some(words)

\* The text of a note is a sequence of pieces: a piece is one double quote
\* or a run of other characters.
Quote == "\""

\* a note:"..." token: raw is what is written behind the opening quote, up
\* to the quote the writer closed the note with
NoteTok(raw) == [k |-> "note", raw |-> raw]

\* markdown_parser.rs:273: what the note_val group of NOTE_ATTR_RE_STR
\* captures: pieces that are no quote, and quotes by pairs; a single quote
\* closes the note
RECURSIVE NoteCaptured(_)
NoteCaptured(raw) ==
    IF raw = <<>> THEN <<>>
    ELSE IF Head(raw) # Quote THEN <<Head(raw)>> \o NoteCaptured(Tail(raw))
    ELSE IF Len(raw) >= 2 /\ raw[2] = Quote
    THEN <<Quote, Quote>> \o NoteCaptured(Tail(Tail(raw)))
    ELSE <<>>

\* markdown_parser.rs:446: replace("\"\"", "\"")
RECURSIVE Unescape(_)
Unescape(text) ==
    IF text = <<>> THEN <<>>
    ELSE IF Len(text) >= 2 /\ text[1] = Quote /\ text[2] = Quote
    THEN <<Quote>> \o Unescape(Tail(Tail(text)))
    ELSE <<Head(text)>> \o Unescape(Tail(text))

\* markdown_parser.rs:442-448: note_re.captures finds the first note
FirstNote(attrs) ==
    LET toks == SelectSeq(attrs, LAMBDA tok : tok.k = "note")
    IN IF toks = <<>> THEN None
       ELSE Some(Unescape(NoteCaptured(toks[1].raw)))

\* markdown_parser.rs:346-468.  now holds, for each date attribute, what
\* Local::now() returns when the value of that attribute is parsed.
parse_markdown_line_to_task(line, default_id, default_created, default_display_order, now) ==
    IF ~BaseMatches(line) THEN [ok |-> FALSE, task |-> <<>>]
    ELSE LET attrs == attributes_str(line)
             tok == FirstIdToken(attrs)
             task_id == IF tok = None THEN default_id
                        ELSE IF ParseI64(tok[1]) = None THEN default_id
                        ELSE ParseI64(tok[1])[1]
             parsed_created == DateAttr(attrs, "created", now.created)
         IN [ok |-> TRUE,
             task |-> Task(task_id, task_name(line),
                           map_status_char_to_string(line.status_char),
                           IF line.priority = None THEN "N" ELSE line.priority[1],
                           IF parsed_created = None THEN default_created
                           ELSE parsed_created[1],
                           default_display_order,
                           DateAttr(attrs, "due", now.due),
                           DateAttr(attrs, "updated", now.updated),
                           DateAttr(attrs, "completed", now.completed),
                           FirstProject(attrs),
                           AbsentWhenEmpty(CollectWords(attrs, "context")),
                           FirstNote(attrs),
                           AbsentWhenEmpty(CollectWords(attrs, "tag")),
                           None, None)]

\* markdown_parser.rs:159-174: the first pass collects every id written
CollectExplicitIds(markdown_document_lines) ==
    { ParseI64(FirstIdToken(attributes_str(markdown_document_lines[k]))[1])[1] :
        k \in { j \in DOMAIN markdown_document_lines :
                  /\ IsTaskLine(markdown_document_lines[j])
                  /\ FirstIdToken(attributes_str(markdown_document_lines[j])) # None
                  /\ ParseI64(FirstIdToken(attributes_str(markdown_document_lines[j]))[1]) # None } }

\* markdown_parser.rs:198-200: while existing_ids.contains(&next_auto_id)
\* { next_auto_id += 1 }
SkipTaken(existing_ids, next_auto_id) ==
    CHOOSE m \in next_auto_id..(next_auto_id + Cardinality(existing_ids)) :
        /\ m \notin existing_ids
        /\ \A j \in next_auto_id..(m - 1) : j \in existing_ids

AfterSkippedLine_counted(display_order_counter) == display_order_counter + 1

\* markdown_parser.rs:177-179: a line that is not a task line is passed over
\* with `continue`, before the statements that advance display_order_counter
AfterSkippedLine(display_order_counter) == display_order_counter

\* markdown_parser.rs:176-206: the second pass.  k is the line being read,
\* now[k] the readings of the clock made while line k is parsed.
RECURSIVE ParseLines(_, _, _, _, _, _, _, _)
ParseLines(lines, k, default_created, now, existing_ids, next_auto_id, display_order_counter, flat_parsed_items) ==
    IF k > Len(lines) THEN [ok |-> TRUE, flat |-> flat_parsed_items]
    ELSE IF ~IsTaskLine(lines[k])
    THEN ParseLines(lines, k + 1, default_created, now, existing_ids, next_auto_id,
                    AfterSkippedLine(display_order_counter), flat_parsed_items)
    ELSE LET r == parse_markdown_line_to_task(lines[k], 0, default_created,
                                              display_order_counter, now[k])
         IN IF ~r.ok THEN [ok |-> FALSE, flat |-> <<>>]
            ELSE IF r.task.id # 0
            THEN ParseLines(lines, k + 1, default_created, now,
                            existing_ids \cup {r.task.id}, next_auto_id,
                            display_order_counter + 1,
                            Append(flat_parsed_items,
                                   [task |-> r.task,
                                    level |-> calculate_indent_level(lines[k])]))
            ELSE LET n == SkipTaken(existing_ids, next_auto_id) IN
                 ParseLines(lines, k + 1, default_created, now,
                            existing_ids \cup {n}, n + 1,
                            display_order_counter + 1,
                            Append(flat_parsed_items,
                                   [task |-> [r.task EXCEPT !.id = n],
                                    level |-> calculate_indent_level(lines[k])]))

\* the readings handed to the line parser where the dates it returns are
\* not used
NoReadings == [ key \in {DateKeySeq[j] : j \in DOMAIN DateKeySeq} |-> 0 ]

\* markdown_parser.rs:58-60: while existing_ids.contains(&current_id_counter)
\* { current_id_counter += 1 }.  The addition overflows at i64::MAX: with
\* overflow checks the program panics (None), without them the counter
\* wraps to i64::MIN.
RECURSIVE FirstLoopSkipTaken(_, _, _)
FirstLoopSkipTaken(existing_ids, current_id_counter, checks) ==
    IF current_id_counter \notin existing_ids THEN Some(current_id_counter)
    ELSE IF current_id_counter = i64_MAX
    THEN (IF checks THEN None
          ELSE FirstLoopSkipTaken(existing_ids, i64_MIN, checks))
    ELSE FirstLoopSkipTaken(existing_ids, current_id_counter + 1, checks)

\* markdown_parser.rs:63-64: existing_ids.insert(task.id) and
\* current_id_counter = task.id.max(current_id_counter) + 1, `top` being the
\* larger of the two.  The addition overflows when top is i64::MAX: with
\* overflow checks the program panics, without them the counter wraps to
\* i64::MIN.
FirstLoopRegistered(id, top, existing_ids, checks) ==
    IF top = i64_MAX /\ checks
    THEN [outcome |-> "panic", existing_ids |-> existing_ids, current_id_counter |-> top]
    ELSE [outcome |-> "done", existing_ids |-> existing_ids \cup {id},
          current_id_counter |-> IF top = i64_MAX THEN i64_MIN ELSE top + 1]

\* markdown_parser.rs:61-64: task.id = current_id_counter, where `free` is
\* what the loop of lines 58-60 left in current_id_counter
FirstLoopAllocated(free, existing_ids, checks) ==
    IF free = None
    THEN [outcome |-> "panic", existing_ids |-> existing_ids, current_id_counter |-> i64_MAX]
    ELSE FirstLoopRegistered(free[1], free[1], existing_ids, checks)

\* markdown_parser.rs:57-64: the identifier handling of the first loop for a
\* line whose parse has the identifier task_id
FirstLoopIdentifier(task_id, existing_ids, current_id_counter, checks) ==
    IF task_id = 0 \/ task_id \in existing_ids
    THEN FirstLoopAllocated(
             FirstLoopSkipTaken(existing_ids, current_id_counter, checks),
             existing_ids, checks)
    ELSE FirstLoopRegistered(
             task_id,
             IF task_id >= current_id_counter THEN task_id ELSE current_id_counter,
             existing_ids, checks)

\* markdown_parser.rs:54-64: what the first loop does with the result r of
\* parse_markdown_line_to_task: line 54 returns the error of a malformed
\* line
FirstLoopParsed(r, existing_ids, current_id_counter, checks) ==
    IF ~r.ok
    THEN [outcome |-> "err", existing_ids |-> existing_ids,
          current_id_counter |-> current_id_counter]
    ELSE FirstLoopIdentifier(r.task.id, existing_ids, current_id_counter, checks)

\* markdown_parser.rs:40-96: the first loop over the lines.  What it builds
\* (root_tasks, parent_stack, the identifiers it gives) is not used after
\* it, but it runs: a malformed task line returns its error from line 54,
\* and line 64 can overflow.  Of the task that line 54 returns only the
\* identifier is used, which no reading of the clock changes.  The loop is
\* followed from line k on; `at` is the line where it stopped.
RECURSIVE FirstLoop(_, _, _, _, _)
RECURSIVE FirstLoopFrom(_, _, _, _)
FirstLoop(lines, k, existing_ids, current_id_counter, checks) ==
    IF k > Len(lines) THEN [outcome |-> "done", at |-> k]
    ELSE IF ~IsTaskLine(lines[k])
    THEN FirstLoop(lines, k + 1, existing_ids, current_id_counter, checks)
    ELSE FirstLoopFrom(lines, k,
                       FirstLoopParsed(
                           parse_markdown_line_to_task(lines[k], 0, 0, 0, NoReadings),
                           existing_ids, current_id_counter, checks),
                       checks)

\* markdown_parser.rs:40: the next turn of the first loop, after line k left
\* the state `step`
FirstLoopFrom(lines, k, step, checks) ==
    IF step.outcome # "done" THEN [outcome |-> step.outcome, at |-> k]
    ELSE FirstLoop(lines, k + 1, step.existing_ids, step.current_id_counter, checks)

\* markdown_parser.rs:40-54: the lines whose attributes the first loop
\* parses: the well-formed task lines up to the line where the loop stopped
LinesParsed(lines, at) ==
    { k \in DOMAIN lines :
        IsTaskLine(lines[k]) /\ BaseMatches(lines[k]) /\ k <= at }

\* markdown_parser.rs:335: the calls of Local::now() that one loop over the
\* lines makes on the lines of the set `parsed`, in the order made, from
\* line k and attribute j on; a call is named by the loop (pass), its line
\* and its attribute
RECURSIVE LoopReadPoints(_, _, _, _, _)
LoopReadPoints(lines, parsed, pass, k, j) ==
    IF k > Len(lines) THEN <<>>
    ELSE IF j > Len(DateKeySeq) THEN LoopReadPoints(lines, parsed, pass, k + 1, 1)
    ELSE (IF k \in parsed /\ ReadsClock(attributes_str(lines[k]), DateKeySeq[j])
          THEN <<[pass |-> pass, line |-> k, key |-> DateKeySeq[j]]>> ELSE <<>>)
         \o LoopReadPoints(lines, parsed, pass, k, j + 1)

\* markdown_parser.rs:40-54,176-188,335: the calls of Local::now() that
\* parsing a document makes.  The first loop (lines 40-96) parses the task
\* lines until it stops; when it has run through, the second pass (line
\* 188) parses every task line again.
ReadPointsAfter(lines, first) ==
    LoopReadPoints(lines, LinesParsed(lines, first.at), 1, 1, 1)
        \o (IF first.outcome = "done"
            THEN LoopReadPoints(lines, LinesParsed(lines, first.at), 2, 1, 1)
            ELSE <<>>)

\* the calls of Local::now() of a parse that begins with the first loop
ReadPoints(lines, checks) ==
    ReadPointsAfter(lines, FirstLoop(lines, 1, {}, 1, checks))

\* the readings of a clock that n successive calls can return, the first
\* call being made on day `from` or later: time does not run backwards
SuccessiveReadings(n, from) ==
    { f \in [1..n -> from..(from + MaxDayChanges)] :
        \A i \in 1..(n - 1) : f[i] <= f[i + 1] }

\* markdown_parser.rs:335: what the calls of Local::now() can return while a
\* document is parsed by a process that began on day `from`: the calls in
\* the order made, each with the day it returned
ReadsAt(points, from) ==
    { [ i \in DOMAIN points |->
          [pass |-> points[i].pass, line |-> points[i].line,
           key |-> points[i].key, day |-> f[i]] ] :
        f \in SuccessiveReadings(Len(points), from) }

\* the readings of the calls that parsing the document `lines` makes
ClockReads(lines, from, checks) == ReadsAt(ReadPoints(lines, checks), from)

\* markdown_parser.rs:188: the readings of the second pass, whose values the
\* function returns, by line and attribute (an attribute that makes no call
\* is given the day the parse began)
ReadingsOf(lines, from, calls) ==
    [ k \in DOMAIN lines |->
        [ key \in {DateKeySeq[j] : j \in DOMAIN DateKeySeq} |->
            LET made == { i \in DOMAIN calls :
                            /\ calls[i].pass = 2
                            /\ calls[i].line = k
                            /\ calls[i].key = key }
            IN IF made = {} THEN from
               ELSE calls[CHOOSE i \in made : TRUE].day ] ]

\* the day of the last reading
LastReading(calls, from) ==
    IF calls = <<>> THEN from ELSE calls[Len(calls)].day

\* the readings of a parse during which the day does not change
SameDay(lines, day) == ReadingsOf(lines, day, <<>>)

RECURSIVE PushSubtask_overwriting(_, _, _)
PushSubtask_overwriting(tasks, path, t) ==
    IF Len(path) = 1
    THEN [tasks EXCEPT ![path[1]].subtasks = Some(<<t>>)]
    ELSE [tasks EXCEPT ![path[1]].subtasks =
              Some(PushSubtask_overwriting(@[1], Tail(path), t))]

\* markdown_parser.rs:237-241: the push onto the subtasks of the task a
\* parent pointer refers to.  A pointer is modelled by the path of indices
\* that leads from result_tasks to the task.
RECURSIVE PushSubtask(_, _, _)
PushSubtask(tasks, path, t) ==
    IF Len(path) = 1
    THEN [tasks EXCEPT ![path[1]].subtasks =
              Some((IF @ = None THEN <<>> ELSE @[1]) \o <<t>>)]
    ELSE [tasks EXCEPT ![path[1]].subtasks =
              Some(PushSubtask(@[1], Tail(path), t))]

RECURSIVE TaskAt(_, _)
TaskAt(tasks, path) ==
    IF Len(path) = 1 THEN tasks[path[1]]
    ELSE TaskAt(tasks[path[1]].subtasks[1], Tail(path))

RECURSIVE PopStack_keeps_equal_level(_, _)
PopStack_keeps_equal_level(parent_ref_stack, current_level) ==
    IF parent_ref_stack = <<>> THEN <<>>
    ELSE IF current_level < parent_ref_stack[Len(parent_ref_stack)].level
    THEN PopStack_keeps_equal_level(
             SubSeq(parent_ref_stack, 1, Len(parent_ref_stack) - 1),
             current_level)
    ELSE parent_ref_stack

\* markdown_parser.rs:219-225: pop while current_level <= parent_level
RECURSIVE PopStack(_, _)
PopStack(parent_ref_stack, current_level) ==
    IF parent_ref_stack = <<>> THEN <<>>
    ELSE IF current_level <= parent_ref_stack[Len(parent_ref_stack)].level
    THEN PopStack(SubSeq(parent_ref_stack, 1, Len(parent_ref_stack) - 1),
                  current_level)
    ELSE parent_ref_stack

\* the vector an element pointer points into, named by the path of the task
\* that owns it (<<>> for result_tasks)
VectorOf(ptr) == SubSeq(ptr, 1, Len(ptr) - 1)

\* Vec::push on the vector named may reallocate it, which moves its elements:
\* every pointer to one of them is stale from then on
MarkMoved(parent_ref_stack, vector) ==
    [ j \in DOMAIN parent_ref_stack |->
        IF VectorOf(parent_ref_stack[j].ptr) = vector
        THEN [parent_ref_stack[j] EXCEPT !.stale = TRUE]
        ELSE parent_ref_stack[j] ]

ParentOf_bottom(parent_ref_stack) == parent_ref_stack[1]

\* markdown_parser.rs:235: parent_ref_stack.last().unwrap()
ParentOf(parent_ref_stack) == parent_ref_stack[Len(parent_ref_stack)]

\* markdown_parser.rs:219-247: one pass of the body of the tree assembly
\* loop.  An entry of the stack is a pointer, the level of its task, and
\* whether the task may have been moved since the pointer was taken.
AssembleOne(current_task, current_level, result_tasks, parent_ref_stack) ==
    LET stack == PopStack(parent_ref_stack, current_level)
    IN IF stack = <<>>
       THEN [result_tasks |-> Append(result_tasks, current_task),
             parent_ref_stack |->
                 Append(MarkMoved(stack, <<>>),
                        [ptr |-> <<Len(result_tasks) + 1>>,
                         level |-> current_level, stale |-> FALSE])]
       ELSE LET parent_ptr == ParentOf(stack).ptr
                pushed == PushSubtask(result_tasks, parent_ptr, current_task)
                new_child_ptr ==
                    Append(parent_ptr,
                           Len(TaskAt(pushed, parent_ptr).subtasks[1]))
            IN [result_tasks |-> pushed,
                parent_ref_stack |->
                    Append(MarkMoved(stack, parent_ptr),
                           [ptr |-> new_child_ptr,
                            level |-> current_level, stale |-> FALSE])]

\* markdown_parser.rs:217-249: the tree assembly loop
RECURSIVE Assemble(_, _, _, _)
Assemble(flat_parsed_items, k, result_tasks, parent_ref_stack) ==
    IF k > Len(flat_parsed_items) THEN result_tasks
    ELSE LET pass == AssembleOne(flat_parsed_items[k].task,
                                 flat_parsed_items[k].level,
                                 result_tasks, parent_ref_stack)
         IN Assemble(flat_parsed_items, k + 1, pass.result_tasks,
                     pass.parent_ref_stack)

\* markdown_parser.rs:21-251: the first loop (lines 40-96), which returns
\* the error of a malformed line or panics on the overflow of line 64, then
\* the collection of the written ids, the second pass and the assembly,
\* which build what the function returns.  A panic ends the program: the
\* function returns neither Ok nor Err.
parse_markdown_document_to_tasks(markdown_document_lines, default_created, now, checks) ==
    LET first == FirstLoop(markdown_document_lines, 1, {}, 1, checks)
        parsed == ParseLines(markdown_document_lines, 1, default_created, now,
                             CollectExplicitIds(markdown_document_lines),
                             1, 1, <<>>)
    IN IF first.outcome = "panic"
       THEN [ok |-> FALSE, panicked |-> TRUE, tasks |-> <<>>]
       ELSE IF first.outcome = "err" \/ ~parsed.ok
       THEN [ok |-> FALSE, panicked |-> FALSE, tasks |-> <<>>]
       ELSE [ok |-> TRUE, panicked |-> FALSE,
             tasks |-> Assemble(parsed.flat, 1, <<>>, <<>>)]

-----------------------------------------------------------------------------
(* The enumerated documents *)

Line(spaces, kind, status_char, bracket, name, attrs) ==
    [ spaces |-> spaces, kind |-> kind, status_char |-> status_char,
      priority |-> None, bracket |-> bracket, name |-> name, attrs |-> attrs ]

IdTok(v) == [k |-> "id", v |-> v]

\* the two largest identifiers an i64 holds
TopIds == {i64_MAX - 1, i64_MAX}

\* the id attributes of a line: none, one (0, a positive number, one of the
\* two largest i64, or digits beyond i64), or two
IdAttrs ==
    {<<>>, <<IdTok(Huge)>>, <<IdTok(MaxTokId), IdTok(1)>>}
        \cup { <<IdTok(v)>> : v \in (0..MaxTokId) \cup TopIds }

\* the enumerated lines: every id attribute on a root line, and every one
\* but the two largest on a nested line as well
DocLines ==
    { Line(0, "task", " ", TRUE, "T", a) : a \in IdAttrs }
        \cup { Line(4, "task", " ", TRUE, "T", a) :
                   a \in IdAttrs \ { <<IdTok(v)>> : v \in TopIds } }
        \cup { Line(8, "task", " ", TRUE, "T", a) : a \in {<<>>, <<IdTok(1)>>} }
        \cup { Line(0, "task", "x", FALSE, "plain", <<>>),
               Line(0, "task", "x", FALSE, "plain id:1", <<IdTok(1)>>),
               Line(0, "task", " ", FALSE, "see [[A]] id:2", <<IdTok(2)>>),
               Line(0, "task", "X", TRUE, "T", <<IdTok(1)>>),
               Line(0, "task", " ", FALSE, "", <<>>),
               Line(0, "text", "", FALSE, "Just some random text", <<>>),
               Line(0, "blank", "", FALSE, "", <<>>) }

Documents == SeqsUpTo(DocLines, MaxLines)

-----------------------------------------------------------------------------
(* Specification of the parser: a document is parsed once *)

InitParse ==
    /\ clock = 1
    /\ default_created_date = clock
    /\ existing_tasks = <<>>
    /\ markdown_tasks = <<>>
    /\ pc = "start"
    /\ today = 0
    /\ final_tasks = <<>>
    /\ rerun_tasks = <<>>
    /\ markdown_document \in Documents
    /\ parse_result = [ok |-> FALSE, panicked |-> FALSE, tasks |-> <<>>]
    /\ formatted_document = <<>>
    /\ reparse_result = [ok |-> FALSE, panicked |-> FALSE, tasks |-> <<>>]
    /\ again_tasks = [today |-> 0, tasks |-> <<>>]
    /\ CommandIdle
    /\ AssemblyIdle
    /\ clock_reads = <<>>
    /\ overflow_checks \in BOOLEAN

\* main.rs:102,128,174
Parse ==
    /\ pc = "start"
    /\ \E calls \in ClockReads(markdown_document, clock, overflow_checks) :
           /\ parse_result' = parse_markdown_document_to_tasks(
                                  markdown_document, default_created_date,
                                  ReadingsOf(markdown_document, clock, calls),
                                  overflow_checks)
           /\ clock_reads' = calls
           /\ clock' = LastReading(calls, clock)
    /\ pc' = IF parse_result'.panicked THEN "panicked" ELSE "parsed"
    /\ UNCHANGED <<existing_tasks, markdown_tasks, default_created_date,
                   today, final_tasks, rerun_tasks, markdown_document,
                   formatted_document, reparse_result>>
    /\ UNCHANGED <<again_tasks, command_vars, assembly_vars>>
    /\ UNCHANGED overflow_checks

NextParse == Parse

SpecParse == InitParse /\ [][NextParse]_vars

Parsed == pc = "parsed" /\ parse_result.ok

-----------------------------------------------------------------------------
(* Specification of the tree assembly: the parser is followed through the   *)
(* passes of its assembly loop, with result_tasks and parent_ref_stack as   *)
(* they are between two passes                                              *)

\* task lines at four depths, and a line whose status marker is outside the
\* class
AssemblyLines ==
    { Line(spaces, "task", " ", TRUE, "T", <<>>) : spaces \in {0, 4, 8, 12} }
    \cup { Line(0, "task", "X", TRUE, "T", <<>>) }

AssemblyDocuments == SeqsUpTo(AssemblyLines, MaxLines)

InitAssemble ==
    /\ clock = 1
    /\ default_created_date = clock
    /\ existing_tasks = <<>>
    /\ markdown_tasks = <<>>
    /\ pc = "start"
    /\ today = 0
    /\ final_tasks = <<>>
    /\ rerun_tasks = <<>>
    /\ markdown_document \in AssemblyDocuments
    /\ parse_result = [ok |-> FALSE, panicked |-> FALSE, tasks |-> <<>>]
    /\ formatted_document = <<>>
    /\ reparse_result = [ok |-> FALSE, panicked |-> FALSE, tasks |-> <<>>]
    /\ again_tasks = [today |-> 0, tasks |-> <<>>]
    /\ CommandIdle
    /\ AssemblyIdle
    /\ clock_reads = <<>>
    /\ overflow_checks \in BOOLEAN

\* markdown_parser.rs:153-215: the two passes over the lines, the early
\* return for a document without task lines, and the empty vector and stack
ParseFlat ==
    /\ pc = "start"
    /\ \E calls \in ClockReads(markdown_document, clock, overflow_checks) :
         LET first == FirstLoop(markdown_document, 1, {}, 1, overflow_checks)
             parsed == ParseLines(markdown_document, 1, default_created_date,
                                  ReadingsOf(markdown_document, clock, calls),
                                  CollectExplicitIds(markdown_document),
                                  1, 1, <<>>)
         IN /\ clock_reads' = calls
            /\ clock' = LastReading(calls, clock)
            /\ IF first.outcome = "panic"
               THEN /\ pc' = "panicked"
                    /\ UNCHANGED <<parse_result, loop_items>>
               ELSE IF first.outcome = "err" \/ ~parsed.ok
               THEN /\ pc' = "failed"
                    /\ UNCHANGED <<parse_result, loop_items>>
               ELSE IF parsed.flat = <<>>
               THEN /\ pc' = "parsed"
                    /\ parse_result' = [ok |-> TRUE, panicked |-> FALSE, tasks |-> <<>>]
                    /\ UNCHANGED loop_items
               ELSE /\ pc' = "assembling"
                    /\ loop_items' = parsed.flat
                    /\ UNCHANGED parse_result
    /\ UNCHANGED <<existing_tasks, markdown_tasks, default_created_date,
                   today, final_tasks, rerun_tasks, markdown_document,
                   formatted_document, reparse_result, again_tasks,
                   command_vars, loop_result, loop_stack>>
    /\ UNCHANGED overflow_checks

\* markdown_parser.rs:217-247: one pass of the loop.  Writing through a stale
\* parent pointer is undefined behaviour: the push may land in the task or
\* be lost.
AssembleStep ==
    /\ pc = "assembling"
    /\ loop_items # <<>>
    /\ LET current_task == Head(loop_items).task
           current_level == Head(loop_items).level
           popped == PopStack(loop_stack, current_level)
           pass == AssembleOne(current_task, current_level, loop_result,
                               loop_stack)
       IN /\ \E lands \in (IF popped # <<>> /\ ParentOf(popped).stale
                           THEN BOOLEAN ELSE {TRUE}) :
                 loop_result' = IF lands THEN pass.result_tasks ELSE loop_result
          /\ loop_stack' = pass.parent_ref_stack
    /\ loop_items' = Tail(loop_items)
    /\ UNCHANGED <<existing_tasks, markdown_tasks, default_created_date, clock,
                   pc, today, final_tasks, rerun_tasks, markdown_document,
                   parse_result, formatted_document, reparse_result,
                   again_tasks, command_vars, clock_reads>>
    /\ UNCHANGED overflow_checks

\* markdown_parser.rs:250: Ok(result_tasks); the stack is dropped
AssembleReturn ==
    /\ pc = "assembling"
    /\ loop_items = <<>>
    /\ parse_result' = [ok |-> TRUE, panicked |-> FALSE, tasks |-> loop_result]
    /\ loop_stack' = <<>>
    /\ pc' = "parsed"
    /\ UNCHANGED <<existing_tasks, markdown_tasks, default_created_date, clock,
                   today, final_tasks, rerun_tasks, markdown_document,
                   formatted_document, reparse_result, again_tasks,
                   command_vars, loop_items, loop_result, clock_reads>>
    /\ UNCHANGED overflow_checks

NextAssemble == ParseFlat \/ AssembleStep \/ AssembleReturn

SpecAssemble == InitAssemble /\ [][NextAssemble]_vars

-----------------------------------------------------------------------------
(* markdown_formatter.rs *)

\* str::to_ascii_lowercase, on the status strings written in upper case or
\* with a capital; any other string of the model is in lower case already
str_to_ascii_lowercase(text) ==
    LET lowered == [ NONE |-> "none", OPEN |-> "open", PENDING |-> "pending",
                     DOING |-> "doing", WAITING |-> "waiting", DONE |-> "done",
                     CANCELLED |-> "cancelled", UNKNOWN |-> "unknown",
                     None |-> "none", Open |-> "open", Pending |-> "pending",
                     Doing |-> "doing", Waiting |-> "waiting", Done |-> "done",
                     Cancelled |-> "cancelled", Unknown |-> "unknown" ]
    IN IF text \in DOMAIN lowered THEN lowered[text] ELSE text

\* markdown_formatter.rs:4-18
map_status_string_to_char(status_string) ==
    LET lowered == str_to_ascii_lowercase(status_string) IN
    CASE lowered \in {"none", "open"} -> " "
      [] lowered = "pending" -> "p"
      [] lowered = "doing" -> ">"
      [] lowered = "waiting" -> "w"
      [] lowered = "done" -> "x"
      [] lowered = "cancelled" -> "c"
      [] OTHER -> "?"

\* NaiveDate::format("%Y-%m-%d")
FormatDate(date) ==
    DateText("Y-M-D", CivilFromDays(date).y, CivilFromDays(date).m,
             CivilFromDays(date).d)

\* markdown_formatter.rs:32-35,62-72: a date key whose value is absent is
\* written with a pair of quotes
FormatOptionalDate(key, date) ==
    IF date = None THEN [k |-> key, text |-> DateText("quotes", 0, 0, 0)]
    ELSE [k |-> key, text |-> FormatDate(date[1])]

\* markdown_formatter.rs:36-57: one @word (or #word) for each element
FormatWords(key, words) ==
    IF words = None THEN <<>>
    ELSE [j \in DOMAIN words[1] |-> [k |-> key, word |-> words[1][j]]]

\* markdown_formatter.rs:75: replace("\"", "\"\"")
RECURSIVE Escape(_)
Escape(text) ==
    IF text = <<>> THEN <<>>
    ELSE (IF Head(text) = Quote THEN <<Quote, Quote>> ELSE <<Head(text)>>)
         \o Escape(Tail(text))

\* markdown_formatter.rs:21-88: the line of one task, at the given level
format_task_core_content(task, indent_level) ==
    [ spaces |-> 4 * indent_level, kind |-> "task",
      status_char |-> map_status_string_to_char(task.status),
      priority |-> Some(task.priority), bracket |-> TRUE, name |-> task.name,
      attrs |-> << [k |-> "id", v |-> task.id],
                   FormatOptionalDate("due", task.due) >>
                \o FormatWords("project", IF task.project = None THEN None
                                          ELSE Some(<<task.project[1]>>))
                \o FormatWords("context", task.contexts)
                \o FormatWords("tag", task.tags)
                \o << [k |-> "created", text |-> FormatDate(task.created)],
                      FormatOptionalDate("updated", task.updated),
                      FormatOptionalDate("completed", task.completed) >>
                \o (IF task.notes = None THEN <<>>
                    ELSE << [k |-> "note", raw |-> Escape(task.notes[1])] >>) ]

\* markdown_formatter.rs:91-111: a task, then its subtasks one level deeper,
\* then its siblings
RECURSIVE format_task_recursive_internal(_, _)
format_task_recursive_internal(tasks, indent_level) ==
    IF tasks = <<>> THEN <<>>
    ELSE <<format_task_core_content(Head(tasks), indent_level)>>
           \o (IF Head(tasks).subtasks = None THEN <<>>
               ELSE format_task_recursive_internal(Head(tasks).subtasks[1],
                                                   indent_level + 1))
           \o format_task_recursive_internal(Tail(tasks), indent_level)

\* markdown_formatter.rs:104-111
format_tasks_to_markdown_document(tasks) ==
    format_task_recursive_internal(tasks, 0)

-----------------------------------------------------------------------------
(* Specification of the line parser: a document of one task line, with one *)
(* status marker, one date attribute out of every spelling, two attributes *)
(* or one note, is parsed beginning on the last day of a year or the first *)
(* day of the next, the day changing or not between two readings of the    *)
(* clock; main.rs:89 read the default date on that day or the day before   *)

DateTok(key, text) == [k |-> key, text |-> text]

DateKeys == {"created", "due", "updated", "completed"}

\* month and day as written: dates of every year, dates of leap years only,
\* and numbers that are no date of any year
MonthDays == {<<5, 7>>, <<12, 25>>, <<2, 29>>, <<4, 31>>, <<13, 1>>}

DateTexts ==
    { DateText(f, y, md[1], md[2]) :
          f \in {"Y-M-D", "Y/M/D"}, y \in {2022, 2024}, md \in MonthDays }
        \cup { DateText("M/D", 0, md[1], md[2]) : md \in MonthDays }
        \cup { DateText("Y-M/D", 2022, 5, 7), DateText("quotes", 0, 0, 0) }

\* the status markers written: the class of the pattern, the upper-case
\* letters, and a character that is neither
StatusMarkers == StatusMarkerClass \cup {"X", "P", "W", "C", "z"}

\* a date attribute whose value is no calendar date, in front of or behind
\* an id attribute or a well-formed date attribute of another key
TwoAttrs ==
    UNION { LET other == IF with_id THEN IdTok(2)
                         ELSE DateTok(IF key = "due" THEN "updated" ELSE "due",
                                      DateText("Y/M/D", 2024, 5, 7))
            IN { <<DateTok(key, text), other>>, <<other, DateTok(key, text)>> } :
            key \in DateKeys,
            text \in {DateText("Y-M-D", 2022, 13, 1), DateText("M/D", 0, 4, 31)},
            with_id \in BOOLEAN }

\* two attributes with a two-part value each: created:05/15 due:06/30, and
\* the 29th of February on two keys
TwoPartPairs ==
    { <<DateTok("created", DateText("M/D", 0, 5, 15)),
        DateTok("due", DateText("M/D", 0, 6, 30))>> }
        \cup { <<DateTok(a, DateText("M/D", 0, 2, 29)),
                 DateTok(b, DateText("M/D", 0, 2, 29))>> :
                   a \in {"created", "updated"}, b \in {"due", "completed"} }

\* what is written behind note:" : nothing, a plain text, a text with
\* doubled quotes, and a text with a single quote in it
NoteTexts ==
    { <<>>, <<"A simple note">>,
      <<"A note with ", Quote, Quote, "escaped", Quote, Quote, " quotes.">>,
      <<"cut ", Quote, " here">> }

SingleLines ==
    { Line(0, "task", ch, TRUE, "T", <<>>) : ch \in StatusMarkers }
        \cup { Line(0, "task", " ", TRUE, "T", <<DateTok(key, text)>>) :
                   key \in DateKeys, text \in DateTexts }
        \cup { Line(0, "task", " ", TRUE, "T", a) : a \in TwoAttrs }
        \cup { Line(0, "task", " ", TRUE, "T", a) : a \in TwoPartPairs }
        \cup { Line(0, "task", " ", TRUE, "T", <<IdTok(i64_MAX)>>),
               Line(0, "task", " ", TRUE, "T",
                    <<DateTok("due", DateText("Y-M-D", 2022, 13, 1)),
                      IdTok(i64_MAX)>>) }
        \cup { Line(0, "task", " ", TRUE, "T", <<NoteTok(raw)>>) : raw \in NoteTexts }

InitLine ==
    /\ clock \in {DaysFromCivil(2023, 12, 31), DaysFromCivil(2024, 1, 1)}
    /\ default_created_date \in {clock - 1, clock}
    /\ existing_tasks = <<>>
    /\ markdown_tasks = <<>>
    /\ pc = "start"
    /\ today = 0
    /\ final_tasks = <<>>
    /\ rerun_tasks = <<>>
    /\ markdown_document \in { <<line>> : line \in SingleLines }
    /\ parse_result = [ok |-> FALSE, panicked |-> FALSE, tasks |-> <<>>]
    /\ formatted_document = <<>>
    /\ reparse_result = [ok |-> FALSE, panicked |-> FALSE, tasks |-> <<>>]
    /\ again_tasks = [today |-> 0, tasks |-> <<>>]
    /\ CommandIdle
    /\ AssemblyIdle
    /\ clock_reads = <<>>
    /\ overflow_checks \in BOOLEAN

NextLine == Parse

SpecLine == InitLine /\ [][NextLine]_vars

-----------------------------------------------------------------------------
(* Specification of the round trip: a document is parsed, the forest is    *)
(* rendered, and the rendering is parsed                                   *)

InitFmt ==
    /\ clock = DaysFromCivil(2023, 12, 31)
    /\ default_created_date = clock
    /\ existing_tasks = <<>>
    /\ markdown_tasks = <<>>
    /\ pc = "start"
    /\ today = 0
    /\ final_tasks = <<>>
    /\ rerun_tasks = <<>>
    /\ markdown_document \in Documents \cup { <<line>> : line \in SingleLines }
    /\ parse_result = [ok |-> FALSE, panicked |-> FALSE, tasks |-> <<>>]
    /\ formatted_document = <<>>
    /\ reparse_result = [ok |-> FALSE, panicked |-> FALSE, tasks |-> <<>>]
    /\ again_tasks = [today |-> 0, tasks |-> <<>>]
    /\ CommandIdle
    /\ AssemblyIdle
    /\ clock_reads = <<>>
    /\ overflow_checks \in BOOLEAN

\* main.rs:174,190: the forest of a successful parse is rendered
Format ==
    /\ pc = "parsed"
    /\ parse_result.ok
    /\ formatted_document' = format_tasks_to_markdown_document(parse_result.tasks)
    /\ pc' = "formatted"
    /\ UNCHANGED <<existing_tasks, markdown_tasks, default_created_date, clock,
                   today, final_tasks, rerun_tasks, markdown_document,
                   parse_result, reparse_result>>
    /\ UNCHANGED <<again_tasks, command_vars, assembly_vars, clock_reads>>
    /\ UNCHANGED overflow_checks

\* main.rs:174: the rendering is the document of another run
Reparse ==
    /\ pc = "formatted"
    /\ \E calls \in ClockReads(formatted_document, clock, overflow_checks) :
           /\ reparse_result' = parse_markdown_document_to_tasks(
                                    formatted_document, default_created_date,
                                    ReadingsOf(formatted_document, clock, calls),
                                    overflow_checks)
           /\ clock' = LastReading(calls, clock)
    /\ pc' = IF reparse_result'.panicked THEN "panicked" ELSE "reparsed"
    /\ UNCHANGED <<existing_tasks, markdown_tasks, default_created_date,
                   today, final_tasks, rerun_tasks, markdown_document,
                   parse_result, formatted_document, clock_reads>>
    /\ UNCHANGED <<again_tasks, command_vars, assembly_vars>>
    /\ UNCHANGED overflow_checks

NextFmt == Parse \/ Format \/ Reparse

SpecFmt == InitFmt /\ [][NextFmt]_vars

-----------------------------------------------------------------------------
(* The apply command (main.rs:113-146).  The store file is modelled by the  *)
(* lines that str::lines() yields: a line is blank or holds a JSON object.  *)
(* A JSON object is a function from the keys written to their values; the   *)
(* value of an optional member is <<>> for null and <<v>> for the value v.  *)

\* task_model.rs:8-13
RequiredKeys == {"name", "status", "priority", "id", "created", "display_order"}

\* task_model.rs:16-35 (repeat is absent in every task of the model)
OptionalKeys == {"due", "updated", "completed", "project", "contexts", "notes", "tags", "subtasks", "extra"}

\* serde_json::to_string of a Task (main.rs:139): skip_serializing_if leaves
\* out every optional member that is None
RECURSIVE to_string(_)
to_string(task) ==
    [ key \in RequiredKeys \cup { opt \in OptionalKeys : task[opt] # None } |->
        IF key = "subtasks"
        THEN Some([ j \in DOMAIN task.subtasks[1] |-> to_string(task.subtasks[1][j]) ])
        ELSE task[key] ]

\* serde_json::from_str::<Task> (main.rs:126): None for Err.  A required
\* member must be written; an optional member that is missing or null is None.
RECURSIVE from_str(_)
from_str(obj) ==
    IF ~(RequiredKeys \subseteq DOMAIN obj) THEN None
    ELSE LET member(key) == IF key \in DOMAIN obj THEN obj[key] ELSE None
             subs == IF member("subtasks") = None THEN <<>>
                     ELSE [ j \in DOMAIN obj.subtasks[1] |-> from_str(obj.subtasks[1][j]) ]
         IN IF \E j \in DOMAIN subs : subs[j] = None THEN None
            ELSE Some(Task(obj.id, obj.name, obj.status, obj.priority,
                           obj.created, obj.display_order,
                           member("due"), member("updated"), member("completed"),
                           member("project"), member("contexts"), member("notes"),
                           member("tags"),
                           IF member("subtasks") = None THEN None
                           ELSE Some([ j \in DOMAIN subs |-> subs[j][1] ]),
                           member("extra")))

JsonLine(obj) == [kind |-> "json", obj |-> obj]

BlankLine == [kind |-> "blank"]

\* main.rs:123-129: blank lines are skipped, and the first line that does
\* not decode ends the command with an error
RECURSIVE LoadStore(_, _, _)
LoadStore(existing_json_lines, k, existing_tasks_vec) ==
    IF k > Len(existing_json_lines) THEN [ok |-> TRUE, tasks |-> existing_tasks_vec]
    ELSE IF existing_json_lines[k].kind = "blank"
    THEN LoadStore(existing_json_lines, k + 1, existing_tasks_vec)
    ELSE IF from_str(existing_json_lines[k].obj) = None
    THEN [ok |-> FALSE, tasks |-> <<>>]
    ELSE LoadStore(existing_json_lines, k + 1,
             Append(existing_tasks_vec, from_str(existing_json_lines[k].obj)[1]))

\* main.rs:138-142: the records joined by "\n" and one more "\n"; of an empty
\* collection the file is one empty line
WriteStore(tasks) ==
    IF tasks = <<>> THEN <<BlankLine>>
    ELSE [ j \in DOMAIN tasks |-> JsonLine(to_string(tasks[j])) ]

StoreAfter_written_on_dry_run(store, tasks, is_dry_run) == WriteStore(tasks)

\* main.rs:132-143: only a run without --dry-run writes the file
StoreAfter(store, tasks, is_dry_run) ==
    IF is_dry_run THEN store ELSE WriteStore(tasks)

\* main.rs:132-146: what a successful run prints
Printed(tasks, is_dry_run) ==
    IF is_dry_run
    THEN [summary |-> <<"Dry run summary:", "Added tasks:">>
                      \o [ j \in DOMAIN tasks |-> tasks[j].name ],
          markdown |-> <<>>]
    ELSE [summary |-> <<>>,
          markdown |-> format_tasks_to_markdown_document(tasks)]

NothingPrinted == [summary |-> <<>>, markdown |-> <<>>]

-----------------------------------------------------------------------------
(* Specification of the apply command: a store file and a document are      *)
(* given, and the command runs once, with or without --dry-run              *)

\* longest enumerated store file, in lines
MaxStoreLines == 2

\* The objects written in the store: the record of tests/apply_cli.rs:30-47
\* (here with an empty contexts list too, and with an extension payload), a
\* record with a nested record that has the identifier 1, and an object with
\* no name member.
StoredObjects ==
    { [ id |-> 1, name |-> "OldTask", status |-> "NONE", notes |-> None,
        created |-> 0, updated |-> None, due |-> None, completed |-> None,
        tags |-> Some(<<>>), subtasks |-> Some(<<>>), priority |-> "N",
        display_order |-> 1, project |-> None, contexts |-> Some(<<>>),
        extra |-> Some("payload") ],
      [ id |-> 2, name |-> "Two", status |-> "open", priority |-> "A",
        created |-> 0, display_order |-> 2,
        subtasks |-> Some(<< [ id |-> 1, name |-> "Nested", status |-> "open",
                              priority |-> "N", created |-> 0,
                              display_order |-> 5, tags |-> Some(<<>>),
                              extra |-> Some("nested payload") ] >>) ],
      [ id |-> 1, status |-> "NONE" ] }

StoreFiles ==
    SeqsUpTo({ JsonLine(obj) : obj \in StoredObjects } \cup {BlankLine}, MaxStoreLines)

\* The lines of the documents applied: the line of tests/apply_cli.rs:53, a
\* root line with an id, a context, a tag, a project and a note with quotes
\* in it, a nested line with an id and one without an id and with a date
\* of update, a line whose status marker is outside the class, and a line
\* with the largest identifier.
ApplyLines ==
    { Line(0, "task", " ", FALSE, "NewName", <<>>),
      Line(0, "task", "x", TRUE, "B", <<IdTok(1), WordTok("context", "home"), WordTok("tag", "u"), WordTok("project", "Y"), NoteTok(<<"say ", Quote, Quote, "q", Quote, Quote>>)>>),
      Line(4, "task", " ", TRUE, "C", <<IdTok(1)>>),
      Line(4, "task", " ", TRUE, "D",
           <<DateTok("updated", DateText("Y-M-D", 2024, 3, 4))>>),
      Line(0, "task", "X", TRUE, "E", <<>>),
      Line(0, "task", " ", TRUE, "F", <<IdTok(i64_MAX)>>) }

ApplyDocuments == SeqsUpTo(ApplyLines, MaxLines)

InitCommand ==
    /\ clock = 1
    /\ default_created_date = clock
    /\ store_file \in StoreFiles
    /\ markdown_document \in ApplyDocuments
    /\ from_format \in {"markdown", "json"}
    /\ dry_run \in BOOLEAN
    /\ stdout = NothingPrinted
    /\ existing_tasks = <<>>
    /\ markdown_tasks = <<>>
    /\ pc = "start"
    /\ today = 0
    /\ final_tasks = <<>>
    /\ rerun_tasks = <<>>
    /\ again_tasks = [today |-> 0, tasks |-> <<>>]
    /\ parse_result = [ok |-> FALSE, panicked |-> FALSE, tasks |-> <<>>]
    /\ formatted_document = <<>>
    /\ reparse_result = [ok |-> FALSE, panicked |-> FALSE, tasks |-> <<>>]
    /\ AssemblyIdle
    /\ clock_reads = <<>>
    /\ overflow_checks \in BOOLEAN

\* main.rs:129-146: the merge, the write of the store unless --dry-run, and
\* the output
ApplyMerged(loaded, parsed, apply_now, merged) ==
    /\ pc' = "done"
    /\ existing_tasks' = loaded.tasks
    /\ parse_result' = parsed
    /\ markdown_tasks' = parsed.tasks
    /\ clock' = apply_now
    /\ today' = apply_now
    /\ final_tasks' = merged
    /\ store_file' = StoreAfter(store_file, merged, dry_run)
    /\ stdout' = Printed(merged, dry_run)

\* main.rs:128: the document is parsed; an error of the parser ends the
\* command, a panic ends the process
ApplyParsed(loaded, calls, parsed) ==
    /\ clock_reads' = calls
    /\ IF ~parsed.ok
       THEN /\ pc' = IF parsed.panicked THEN "panicked" ELSE "failed"
            /\ existing_tasks' = loaded.tasks
            /\ parse_result' = parsed
            /\ clock' = LastReading(calls, clock)
            /\ UNCHANGED <<markdown_tasks, today, final_tasks,
                           store_file, stdout>>
       ELSE \E apply_now \in LastReading(calls, clock)..(clock + MaxDayChanges) :
                ApplyMerged(loaded, parsed, apply_now,
                            apply_changes(loaded.tasks, parsed.tasks,
                                          default_created_date, apply_now))

\* main.rs:115-127: --from other than markdown and a store line that does
\* not decode end the command with an error before the document is parsed
ApplyLoaded(loaded) ==
    IF from_format # "markdown" \/ ~loaded.ok
    THEN /\ pc' = "failed"
         /\ UNCHANGED <<existing_tasks, markdown_tasks, parse_result,
                        today, final_tasks, store_file, stdout,
                        clock, clock_reads>>
    ELSE \E calls \in ClockReads(markdown_document, clock, overflow_checks) :
             ApplyParsed(loaded, calls,
                         parse_markdown_document_to_tasks(
                             markdown_document, default_created_date,
                             ReadingsOf(markdown_document, clock, calls),
                             overflow_checks))

\* main.rs:113-146, one run of the command
ApplyCommand ==
    /\ pc = "start"
    /\ ApplyLoaded(LoadStore(store_file, 1, <<>>))
    /\ UNCHANGED <<default_created_date, rerun_tasks, markdown_document,
                   formatted_document, reparse_result, again_tasks,
                   from_format, dry_run, assembly_vars>>
    /\ UNCHANGED overflow_checks

NextCommand == ApplyCommand

SpecCommand == InitCommand /\ [][NextCommand]_vars

CommandDone == pc = "done"

-----------------------------------------------------------------------------
(* Properties of the merge *)

\* C1 (dense ordering): the display_order values of the records of the merged
\* output are exactly 1..N, N the size of the output, with no value twice,
\* whatever display_order values the prior records and parsed tasks carried
\* (a prior record any value, a parsed task the count of its task line).
C1_DenseOrdering ==
    Applied =>
        /\ { final_tasks[k].display_order : k \in DOMAIN final_tasks }
               = 1..Len(final_tasks)
        /\ \A i, j \in DOMAIN final_tasks :
               i # j => final_tasks[i].display_order # final_tasks[j].display_order

\* two records merged from parsed root tasks whose display_order values
\* leave a gap (a subtask line lies between them), and a prior record whose
\* display_order is beyond the size of the output
C1_Witness ==
    /\ Applied
    /\ Len(final_tasks) >= 2
    /\ markdown_tasks[2].display_order > markdown_tasks[1].display_order + 1
    /\ \E k \in DOMAIN existing_tasks : existing_tasks[k].display_order > Len(final_tasks)

\* C2 (deletion completeness): an identifier of the prior collection that is
\* nowhere in the new document is nowhere in the merged output, and the
\* output has as many records as the new forest has root tasks (and as many
\* tasks in all, nested ones counted, as the new forest).
C2_DeletionCompleteness ==
    Applied =>
        /\ \A i \in AllIds(existing_tasks) \ AllIds(markdown_tasks) :
               i \notin AllIds(final_tasks)
        /\ Len(final_tasks) = Len(markdown_tasks)
        /\ Len(Flatten(final_tasks)) = Len(Flatten(markdown_tasks))

\* a prior record is deleted while another task is kept
C2_Witness ==
    /\ Applied
    /\ Len(final_tasks) >= 1
    /\ \E k \in DOMAIN existing_tasks :
           /\ existing_tasks[k].id \notin AllIds(markdown_tasks)
           /\ existing_tasks[k].id \notin AllIds(final_tasks)

\* C3 (the claim as stated): for every record of the new forest whose id is
\* the id of a record of the prior collection, the output record has that
\* prior record's id, created and extra.
C3_MatchedKeepsIdCreatedExtra ==
    Applied =>
        \A k \in DOMAIN markdown_tasks :
            markdown_tasks[k].id \in RootIds(existing_tasks) =>
                \E p \in DOMAIN existing_tasks :
                    /\ existing_tasks[p].id = markdown_tasks[k].id
                    /\ final_tasks[k].id = existing_tasks[p].id
                    /\ final_tasks[k].created = existing_tasks[p].created
                    /\ final_tasks[k].extra = existing_tasks[p].extra

\* C4 (the claim as stated): for every identifier of the prior store, root or
\* nested, that still appears somewhere in the new document, the merged
\* output holds a task with that identifier whose created and extra are those
\* of a prior task with that identifier.
C4_StableAtAnyDepth ==
    Applied =>
        \A i \in AllIds(existing_tasks) \cap AllIds(markdown_tasks) :
            \E t \in Range(Flatten(existing_tasks)), o \in Range(Flatten(final_tasks)) :
                /\ t.id = i
                /\ o.id = i
                /\ o.created = t.created
                /\ o.extra = t.extra

\* C5 (attribute tri-state): for every matched identifier each editable field
\* of the output record is the new document's value, absent included.
C5_EditableFieldsReplaced ==
    Applied =>
        \A k \in DOMAIN markdown_tasks :
            markdown_tasks[k].id \in RootIds(existing_tasks) =>
                /\ final_tasks[k].name = markdown_tasks[k].name
                /\ final_tasks[k].status = markdown_tasks[k].status
                /\ final_tasks[k].priority = markdown_tasks[k].priority
                /\ final_tasks[k].due = markdown_tasks[k].due
                /\ final_tasks[k].completed = markdown_tasks[k].completed
                /\ final_tasks[k].notes = markdown_tasks[k].notes
                /\ final_tasks[k].project = markdown_tasks[k].project
                /\ final_tasks[k].contexts = markdown_tasks[k].contexts
                /\ final_tasks[k].tags = markdown_tasks[k].tags
                /\ final_tasks[k].subtasks = markdown_tasks[k].subtasks

\* a stored task with due, project and subtasks set is matched by a line that
\* omits them, and the merged task has them absent
C5_Witness ==
    /\ Applied
    /\ \E k \in DOMAIN markdown_tasks :
           /\ markdown_tasks[k].due = None
           /\ markdown_tasks[k].subtasks = None
           /\ markdown_tasks[k].id \in RootIds(existing_tasks)
           /\ existing_tasks_map(existing_tasks)[markdown_tasks[k].id].due # None
           /\ existing_tasks_map(existing_tasks)[markdown_tasks[k].id].subtasks # None
           /\ final_tasks[k].due = None
           /\ final_tasks[k].project = None
           /\ final_tasks[k].subtasks = None

\* C6: every record of the merged output, newly created or matched, has
\* updated equal to the processing date (the date the merge read when it
\* ran), whatever updated value the line or the prior record carried and
\* even if no editable field changed.
C6_UpdatedStamped ==
    Applied =>
        \A k \in DOMAIN final_tasks : final_tasks[k].updated = Some(today)

\* a matched record none of whose editable fields changes, next to a new
\* record whose line typed another updated date
C6_Witness ==
    /\ Applied
    /\ \E k \in DOMAIN markdown_tasks :
           /\ markdown_tasks[k].id \in RootIds(existing_tasks)
           /\ existing_tasks_map(existing_tasks)[markdown_tasks[k].id].name
                  = markdown_tasks[k].name
           /\ existing_tasks_map(existing_tasks)[markdown_tasks[k].id].due
                  = markdown_tasks[k].due
           /\ existing_tasks_map(existing_tasks)[markdown_tasks[k].id].updated = None
           /\ final_tasks[k].updated = Some(today)
    /\ \E k \in DOMAIN markdown_tasks :
           /\ markdown_tasks[k].id \notin RootIds(existing_tasks)
           /\ markdown_tasks[k].updated # None
           /\ markdown_tasks[k].updated # Some(today)

\* C7 (the claim as stated): two runs of apply_changes on the same prior
\* collection, the same forest and the same date argument give the same
\* output.
C7_Deterministic ==
    pc = "reapplied" => rerun_tasks = final_tasks

\* C8: for every root task of the new forest whose identifier is not in the
\* prior collection the merged output contains the parsed task, changed only
\* in updated (the processing date) and display_order.
C8_NewTaskVerbatim ==
    Applied =>
        \A k \in DOMAIN markdown_tasks :
            markdown_tasks[k].id \notin RootIds(existing_tasks) =>
                \E j \in DOMAIN final_tasks :
                    final_tasks[j] =
                        [markdown_tasks[k] EXCEPT
                            !.updated = Some(today),
                            !.display_order = final_tasks[j].display_order]

\* a new task with typed attributes and a subtask is added beside a prior
\* record that is kept
C8_Witness ==
    /\ Applied
    /\ \E k, m \in DOMAIN markdown_tasks :
           /\ markdown_tasks[k].id \notin RootIds(existing_tasks)
           /\ markdown_tasks[k].subtasks # None
           /\ markdown_tasks[k].created # today
           /\ markdown_tasks[m].id \in RootIds(existing_tasks)

\* C9: the record at position i of the merged output has the identifier of
\* the i-th root task of the new forest.
C9_DocumentOrder ==
    Applied =>
        /\ Len(final_tasks) = Len(markdown_tasks)
        /\ \A i \in DOMAIN final_tasks : final_tasks[i].id = markdown_tasks[i].id

\* the new document reverses the prior order, and its second root task
\* carries a display_order that is not its position among the roots
C9_Witness ==
    /\ Applied
    /\ Len(existing_tasks) = 2 /\ Len(markdown_tasks) = 2
    /\ existing_tasks[1].id = markdown_tasks[2].id
    /\ existing_tasks[2].id = markdown_tasks[1].id
    /\ existing_tasks[1].id # existing_tasks[2].id
    /\ markdown_tasks[2].display_order > 2
    /\ final_tasks[1].id = markdown_tasks[1].id

\* the identifiers of the root tasks are pairwise distinct
DistinctRootIds(tasks) ==
    \A j, k \in DOMAIN tasks : j # k => tasks[j].id # tasks[k].id

\* C30 (idempotence of the merge): for a prior collection and a new forest
\* whose identifiers are pairwise distinct, applying the forest again to the
\* merged output, on the same processing date, gives the merged output again.
C30_MergeIdempotent ==
    (/\ pc = "again"
     /\ DistinctRootIds(existing_tasks)
     /\ DistinctRootIds(markdown_tasks)
     /\ again_tasks.today = today)
    => again_tasks.tasks = final_tasks

\* the second application found every record of the first output, one the
\* first application had created and one it had updated from a stored record
\* with a payload
C30_Witness ==
    /\ pc = "again"
    /\ DistinctRootIds(existing_tasks)
    /\ DistinctRootIds(markdown_tasks)
    /\ again_tasks.today = today
    /\ Len(final_tasks) = 2
    /\ Len(existing_tasks) = 1
    /\ existing_tasks[1].extra # None
    /\ existing_tasks[1].id \in RootIds(markdown_tasks)
    /\ again_tasks.tasks = final_tasks

-----------------------------------------------------------------------------
(* Properties of the parser *)

\* the task lines of the document, in order
TaskLines == SelectSeq(markdown_document, IsTaskLine)

\* The identifier a task line carries: the first id attribute behind a
\* [[name]], when it is a positive integer (task_model.rs:11) that fits i64.
ExplicitId(line) ==
    IF line.bracket /\ \E j \in DOMAIN line.attrs : line.attrs[j].k = "id"
    THEN LET v == line.attrs[CHOOSE j \in DOMAIN line.attrs :
                        /\ line.attrs[j].k = "id"
                        /\ \A i \in 1..(j - 1) : line.attrs[i].k # "id"].v
         IN IF v >= 1 THEN Some(v) ELSE None
    ELSE None

ExplicitIdsOfDocument ==
    { ExplicitId(TaskLines[k])[1] :
        k \in { j \in DOMAIN TaskLines : ExplicitId(TaskLines[j]) # None } }

\* the parser has run over the document, returning or not, and every task
\* line of the document has the base shape
RanOverWellFormed ==
    /\ pc \in {"parsed", "panicked"}
    /\ \A k \in DOMAIN TaskLines : BaseMatches(TaskLines[k])

\* C10: every task line that carries an explicit identifier keeps exactly
\* that identifier in the forest the parser returns, and the identifier
\* allocated to a line without one is no identifier written on any line of
\* the document, before or after it.
C10_ExplicitIdsHonoured ==
    RanOverWellFormed =>
        \A k \in DOMAIN TaskLines :
            /\ Parsed
            /\ Len(Flatten(parse_result.tasks)) = Len(TaskLines)
            /\ IF ExplicitId(TaskLines[k]) # None
               THEN Flatten(parse_result.tasks)[k].id = ExplicitId(TaskLines[k])[1]
               ELSE Flatten(parse_result.tasks)[k].id \notin ExplicitIdsOfDocument

\* the task lines that carry no explicit identifier
Unlabeled == { k \in DOMAIN TaskLines : ExplicitId(TaskLines[k]) = None }

\* the smallest positive integer outside the finite set S
SmallestPositiveNotIn(S) ==
    CHOOSE m \in 1..(Cardinality(S) + 1) :
        /\ m \notin S
        /\ \A j \in 1..(m - 1) : j \in S

\* C11: every unlabeled task line receives the smallest positive integer that
\* is neither an explicit identifier of the document nor an identifier
\* allocated to an earlier unlabeled line; so the allocated identifiers
\* increase strictly in document order.
C11_SmallestFreeId ==
    RanOverWellFormed =>
        /\ \A k \in Unlabeled :
               /\ Parsed
               /\ Flatten(parse_result.tasks)[k].id = SmallestPositiveNotIn(
                      ExplicitIdsOfDocument
                          \cup { Flatten(parse_result.tasks)[j].id :
                                   j \in { i \in Unlabeled : i < k } })
        /\ \A j, k \in Unlabeled :
               j < k => Flatten(parse_result.tasks)[j].id
                            < Flatten(parse_result.tasks)[k].id

\* C12 (identifier uniqueness): in every forest the parser returns, for any
\* document, two lines with the same explicit id included, the identifiers of
\* all tasks, roots and nested subtasks together, are pairwise distinct.
C12_IdsPairwiseDistinct ==
    Parsed =>
        LET flat == Flatten(parse_result.tasks) IN
        \A j, k \in DOMAIN flat : j # k => flat[j].id # flat[k].id

\* the depth of the k-th task line
Depth(k) == calculate_indent_level(TaskLines[k])

\* the nearest task line before the k-th whose depth is strictly smaller, or
\* 0 when no task line before it is shallower
NearestShallower(k) ==
    LET cands == { j \in 1..(k - 1) : Depth(j) < Depth(k) } IN
    IF cands = {} THEN 0
    ELSE CHOOSE j \in cands : \A i \in cands : i <= j

\* the pairs <<task, parent>> of a forest, a task being named by its
\* display_order (the position of its line among the task lines) and the
\* parent of a root being 0
RECURSIVE ParentPairs(_, _)
ParentPairs(tasks, parent) ==
    UNION { {<<tasks[k].display_order, parent>>}
              \cup (IF tasks[k].subtasks = None THEN {}
                    ELSE ParentPairs(tasks[k].subtasks[1],
                                     tasks[k].display_order)) :
            k \in DOMAIN tasks }

\* every list of siblings of the forest is in document order
RECURSIVE SiblingsInOrder(_)
SiblingsInOrder(tasks) ==
    /\ \A j, k \in DOMAIN tasks :
           j < k => tasks[j].display_order < tasks[k].display_order
    /\ \A k \in DOMAIN tasks :
           tasks[k].subtasks # None => SiblingsInOrder(tasks[k].subtasks[1])

\* C13 (tree assembly): every task is a subtask of the nearest preceding task
\* line whose depth is strictly smaller, and a root when no preceding line is
\* shallower, a depth jump of more than one level included; siblings keep
\* document order.
C13_NearestShallowerParent ==
    Parsed =>
        /\ ParentPairs(parse_result.tasks, 0)
               = { <<k, NearestShallower(k)>> : k \in DOMAIN TaskLines }
        /\ SiblingsInOrder(parse_result.tasks)

\* a line of depth 2 directly under a line of depth 0 becomes its subtask, and
\* a later line of depth 1 becomes the next subtask of the same parent
C13_Witness ==
    /\ Parsed
    /\ Len(TaskLines) = 3
    /\ Depth(1) = 0 /\ Depth(2) = 2 /\ Depth(3) = 1
    /\ Len(parse_result.tasks) = 1
    /\ Len(parse_result.tasks[1].subtasks[1]) = 2
    /\ parse_result.tasks[1].subtasks[1][1].display_order = 2
    /\ parse_result.tasks[1].subtasks[1][2].display_order = 3

\* C14: the k-th task line of the document, counting task lines only and
\* nested ones too, has display_order k; read depth-first, the display_order
\* values of the forest are 1, 2, ..., N.
C14_DisplayOrderIsTaskLineIndex ==
    Parsed =>
        LET flat == Flatten(parse_result.tasks) IN
        /\ Len(flat) = Len(TaskLines)
        /\ \A k \in DOMAIN flat : flat[k].display_order = k

\* the document opens with a line that is no task line, and its second task
\* line is nested: the subtask has display_order 2
C14_Witness ==
    /\ Parsed
    /\ Len(markdown_document) = 3
    /\ ~IsTaskLine(markdown_document[1])
    /\ Len(TaskLines) = 2
    /\ Len(parse_result.tasks) = 1
    /\ parse_result.tasks[1].display_order = 1
    /\ parse_result.tasks[1].subtasks[1][1].display_order = 2

\* C15 (fail-fast): when any task line of the document does not match the
\* base shape (status marker, optional priority, name), the parser returns an
\* error and no forest, wherever the line sits and however many valid task
\* lines stand before or behind it.
C15_FailFast ==
    (/\ pc \in {"parsed", "panicked"}
     /\ \E k \in DOMAIN TaskLines : ~BaseMatches(TaskLines[k]))
        => (pc = "parsed" /\ ~parse_result.ok /\ parse_result.tasks = <<>>)

\* the document without its blank lines and without the lines that do not
\* begin, after the indentation, with the task list marker
WithoutOtherLines(lines) == SelectSeq(lines, LAMBDA l : l.kind = "task")

\* what the clock returned to the second pass over the document parsed, by
\* line and attribute
ReadingsMade == ReadingsOf(markdown_document, clock, clock_reads)

\* the readings of the clock made on the task lines, in the order of the lines
ReadsOfTaskLines(lines, now) ==
    LET at == SelectSeq([ k \in DOMAIN lines |-> k ],
                        LAMBDA k : lines[k].kind = "task")
    IN [ j \in DOMAIN at |-> now[at[j]] ]

\* C16: blank lines and lines that do not begin with the task list marker are
\* skipped: the parse of a document equals the parse of the same document
\* with those lines removed (same identifiers, display_order values and
\* nesting), also when such a line stands between a parent and its child.
C16_OtherLinesSkipped ==
    pc = "parsed" =>
        parse_result = parse_markdown_document_to_tasks(
                           WithoutOtherLines(markdown_document),
                           default_created_date,
                           ReadsOfTaskLines(markdown_document, ReadingsMade),
                           overflow_checks)

\* a line of text stands between a task line and its indented child, and the
\* child is still the subtask of that line
C16_Witness ==
    /\ Parsed
    /\ Len(markdown_document) = 3
    /\ markdown_document[1].kind = "task"
    /\ markdown_document[2].kind = "text"
    /\ markdown_document[3].kind = "task"
    /\ Len(parse_result.tasks) = 1
    /\ parse_result.tasks[1].subtasks # None
    /\ parse_result.tasks[1].subtasks[1][1].display_order = 2

-----------------------------------------------------------------------------
(* Properties of the line parser *)

\* the one line of the document
TheLine == markdown_document[1]

\* C18: the status marker mapping is case-insensitive: a task line whose
\* marker is X, P, W or C parses, to the status of the lower-case marker
\* (done, pending, waiting, cancelled).
C18_UpperCaseMarkers ==
    (pc = "parsed" /\ TheLine.status_char \in {"X", "P", "W", "C"}) =>
        /\ parse_result.ok
        /\ Len(parse_result.tasks) = 1
        /\ parse_result.tasks[1].status =
               (CASE TheLine.status_char = "X" -> "done"
                  [] TheLine.status_char = "P" -> "pending"
                  [] TheLine.status_char = "W" -> "waiting"
                  [] TheLine.status_char = "C" -> "cancelled")

\* the markers with a status of their own, in either case, and the marker of
\* the status unknown
RecognizedMarkers ==
    {" ", "x", "p", "w", "c", ">", "?", "X", "P", "W", "C"}

\* C19: a task line whose single status marker character is none of the
\* recognized markers parses, to a task with status unknown.
C19_UnrecognizedMarkerIsUnknown ==
    (pc = "parsed" /\ TheLine.status_char \notin RecognizedMarkers) =>
        /\ parse_result.ok
        /\ Len(parse_result.tasks) = 1
        /\ parse_result.tasks[1].status = "unknown"

\* the value the parsed task has for a date key, as an optional date
DateField(task, key) ==
    CASE key = "created" -> Some(task.created)
      [] key = "due" -> task.due
      [] key = "updated" -> task.updated
      [] key = "completed" -> task.completed

\* whether month m has a day d in year y
IsCalendarDate(y, m, d) == from_ymd_opt(y, m, d) # None

\* the year the wall clock shows when the value of the attribute `key` of
\* the line is parsed by the pass whose values are returned
ProcessingYear(key) == CivilFromDays(ReadingsMade[1][key]).y

\* C20: a two-part date token (MM/DD or M/D) on created, due, updated or
\* completed resolves to that month and day in the current processing year Y
\* (5/7 gives Y-05-07), and the spellings YYYY-MM-DD and YYYY/MM/DD resolve
\* to the written year, whatever Y is.
C20_TwoPartDateInProcessingYear ==
    Parsed =>
        \A j \in DOMAIN TheLine.attrs :
            (/\ TheLine.attrs[j].k \in DateKeys
             /\ \A i \in 1..(j - 1) : TheLine.attrs[i].k # TheLine.attrs[j].k)
            => LET key == TheLine.attrs[j].k
                   text == TheLine.attrs[j].text
                   field == DateField(parse_result.tasks[1], key)
               IN /\ (text.form = "M/D"
                        /\ IsCalendarDate(ProcessingYear(key), text.m, text.d))
                       => /\ field # None
                          /\ CivilFromDays(field[1])
                                 = [y |-> ProcessingYear(key), m |-> text.m,
                                    d |-> text.d]
                  /\ (text.form \in {"Y-M-D", "Y/M/D"}
                           /\ IsCalendarDate(text.y, text.m, text.d))
                       => /\ field # None
                          /\ CivilFromDays(field[1])
                                 = [y |-> text.y, m |-> text.m, d |-> text.d]

\* created:05/15 due:06/30 is parsed while 2023 ends: the clock is read four
\* times, twice by each loop; to the second pass it shows 2023 for created
\* and 2024 for due, and the task has 2023-05-15 and 2024-06-30
C20_Witness ==
    /\ Parsed
    /\ Len(clock_reads) = 4
    /\ TheLine.attrs = <<DateTok("created", DateText("M/D", 0, 5, 15)),
                         DateTok("due", DateText("M/D", 0, 6, 30))>>
    /\ ProcessingYear("created") = 2023
    /\ ProcessingYear("due") = 2024
    /\ parse_result.tasks[1].created = DaysFromCivil(2023, 5, 15)
    /\ parse_result.tasks[1].due = Some(DaysFromCivil(2024, 6, 30))

\* a date value that names no day of the calendar: a month outside 1..12 or
\* a day the month does not have, the year of a two-part value being the
\* processing year
NotACalendarDate(key, text) ==
    \/ /\ text.form \in {"Y-M-D", "Y/M/D"}
       /\ ~(text.m \in 1..12 /\ text.d \in 1..DaysInMonth(text.y, text.m))
    \/ /\ text.form = "M/D"
       /\ ~(text.m \in 1..12
              /\ text.d \in 1..DaysInMonth(ProcessingYear(key), text.m))

\* the line without its j-th attribute
WithoutAttr(line, j) ==
    [line EXCEPT !.attrs = SubSeq(@, 1, j - 1) \o SubSeq(@, j + 1, Len(@))]

\* C21: a date attribute whose value is not a valid calendar date (month 13,
\* day 31 of a 30-day month) never fails the line: the line parses, due,
\* updated or completed is left absent and created falls back to the default
\* date, and every other attribute of the line is parsed as it is without
\* the malformed one.
C21_MalformedDateLeftAbsent ==
    pc \in {"parsed", "panicked"} =>
        \A j \in DOMAIN TheLine.attrs :
            (/\ BaseMatches(TheLine)
             /\ TheLine.attrs[j].k \in DateKeys
             /\ NotACalendarDate(TheLine.attrs[j].k, TheLine.attrs[j].text))
            => /\ pc = "parsed"
               /\ parse_result.ok
               /\ Len(parse_result.tasks) = 1
               /\ IF TheLine.attrs[j].k = "created"
                  THEN parse_result.tasks[1].created = default_created_date
                  ELSE DateField(parse_result.tasks[1], TheLine.attrs[j].k) = None
               /\ parse_result =
                      parse_markdown_document_to_tasks(
                          <<WithoutAttr(TheLine, j)>>, default_created_date,
                          ReadingsMade, overflow_checks)

-----------------------------------------------------------------------------
(* Properties of the round trip *)

\* no identifier is written on two task lines of the document
NoDuplicateIdentifiers ==
    \A j, k \in DOMAIN TaskLines :
        (j # k /\ ExplicitId(TaskLines[j]) # None)
            => ExplicitId(TaskLines[j]) # ExplicitId(TaskLines[k])

\* a forest reduced to identifiers, names, statuses, dates, display_order
\* and nesting
RECURSIVE Essence(_)
Essence(tasks) ==
    [ k \in DOMAIN tasks |->
        [ id |-> tasks[k].id, name |-> tasks[k].name,
          status |-> tasks[k].status, created |-> tasks[k].created,
          due |-> tasks[k].due, updated |-> tasks[k].updated,
          completed |-> tasks[k].completed,
          display_order |-> tasks[k].display_order,
          subtasks |-> IF tasks[k].subtasks = None THEN <<>>
                       ELSE Essence(tasks[k].subtasks[1]) ] ]

\* C17 (idempotence of format): for any document without duplicate
\* identifiers, rendering the parsed forest and parsing the rendering yields
\* an identical forest: same identifiers, names, statuses, dates,
\* display_order and nesting, forests built from depth jumps included.
C17_FormatIdempotent ==
    (pc = "reparsed" /\ NoDuplicateIdentifiers) =>
        /\ reparse_result.ok
        /\ Essence(reparse_result.tasks) = Essence(parse_result.tasks)

-----------------------------------------------------------------------------
(* Properties of the apply command *)

\* the tasks of a forest, at any depth
AllTasks(tasks) == Range(Flatten(tasks))

\* C22 (empty collections are absent): no task produced by the parser, and
\* no task at any depth of the merged output of a run of the command, has
\* contexts, tags or subtasks equal to an empty sequence, whatever the store
\* held (records with empty tags, contexts and subtasks lists included).
C22_NoEmptyCollections ==
    \A t \in AllTasks(parse_result.tasks) \cup AllTasks(final_tasks) :
        /\ t.contexts # Some(<<>>)
        /\ t.tags # Some(<<>>)
        /\ t.subtasks # Some(<<>>)

\* a stored record with empty lists was matched, and the output record has
\* the three attributes absent
C22_Witness ==
    /\ CommandDone
    /\ \E old \in Range(existing_tasks), new \in Range(final_tasks) :
          /\ old.id = new.id
          /\ old.tags = Some(<<>>) /\ old.contexts = Some(<<>>)
          /\ old.subtasks = Some(<<>>)
          /\ new.tags = None /\ new.contexts = None /\ new.subtasks = None

\* C23 (dry run never writes): in every run of the command with --dry-run,
\* successful or failed, the store file after the run is the store file
\* before it; a successful run without --dry-run leaves a store file that
\* holds the merge output and nothing else.
C23_DryRunNeverWrites ==
    [][ /\ dry_run => store_file' = store_file
        /\ (~dry_run /\ pc' = "done") =>
              /\ LoadStore(store_file', 1, <<>>) = [ok |-> TRUE, tasks |-> final_tasks']
              /\ Cardinality({ k \in DOMAIN store_file' : store_file'[k].kind = "json" })
                     = Len(final_tasks') ]_vars

\* a dry run merged a store and a document into an output that differs from
\* what the store holds, and printed its summary
C23_Witness ==
    /\ CommandDone
    /\ dry_run
    /\ final_tasks # <<>>
    /\ stdout.summary # <<>>
    /\ LoadStore(store_file, 1, <<>>).ok
    /\ LoadStore(store_file, 1, <<>>).tasks # final_tasks

\* a line of the store file that holds no Task
Undecodable(store_line) ==
    store_line.kind = "json" /\ ~(RequiredKeys \subseteq DOMAIN store_line.obj)

\* C24 (a failed apply leaves the store untouched): when a line of the store
\* cannot be decoded, or a task line of the document does not match the
\* grammar, or --from is not markdown, the run ends with an error, the store
\* file is what it was, and nothing was merged or printed.
C24_FailedApplyLeavesStore ==
    [][ (\/ from_format # "markdown"
         \/ \E k \in DOMAIN store_file : Undecodable(store_file[k])
         \/ \E k \in DOMAIN markdown_document :
               /\ IsTaskLine(markdown_document[k])
               /\ ~BaseMatches(markdown_document[k]))
        => /\ pc' = "failed"
           /\ store_file' = store_file
           /\ final_tasks' = <<>>
           /\ stdout' = NothingPrinted ]_vars

\* C25 (display_order is the flat line position): in the merged output of a
\* run of the command every task, nested subtasks included, has the
\* display_order of its position in the sequence of task lines of the
\* document, so the values read depth-first are 1, 2, 3, ... with no value
\* twice (stated for the documents that write no identifier twice).
C25_DisplayOrderIsFlatPosition ==
    (CommandDone /\ NoDuplicateIdentifiers) =>
        \A k \in DOMAIN Flatten(final_tasks) :
            Flatten(final_tasks)[k].display_order = k

\* the dates an updated: attribute written on the task line of a nested task
\* stands for, in the year of any clock reading of the run
UpdatedWritten(t) ==
    { parse_date_or_empty_attr(a.text, d) :
          a \in { x \in Range(TaskLines[t.display_order].attrs) : x.k = "updated" },
          d \in { clock_reads[i].day : i \in DOMAIN clock_reads } \cup {today} }

\* C26 (subtasks are replaced whole): after a run of the command, the
\* subtasks of every output record whose identifier matched a stored record
\* are exactly the subtree parsed below its line, each nested task with its
\* parsed fields and no extension payload, its date of update the one
\* written on its line or none and never a stamp of the run, whatever
\* subtasks the stored record had and whatever stored record, root or
\* nested, has the identifier of a nested task.
C26_SubtasksReplacedWhole ==
    CommandDone =>
        /\ Len(final_tasks) = Len(parse_result.tasks)
        /\ \A k \in DOMAIN final_tasks :
              final_tasks[k].id \in RootIds(existing_tasks) =>
                  /\ final_tasks[k].subtasks = parse_result.tasks[k].subtasks
                  /\ final_tasks[k].subtasks # None =>
                         \A t \in AllTasks(final_tasks[k].subtasks[1]) :
                             /\ t.extra = None
                             /\ t.updated \in {None} \cup UpdatedWritten(t)

\* a matched record had a stored subtask with a payload, the nested task of
\* the document has the identifier of that subtask and of a stored root, and
\* the output holds the parsed nested task
C26_Witness ==
    /\ CommandDone
    /\ \E old \in Range(existing_tasks), new \in Range(final_tasks) :
          /\ old.id = new.id
          /\ old.subtasks # None /\ old.subtasks[1] # <<>>
          /\ old.subtasks[1][1].extra # None
          /\ new.subtasks # None
          /\ new.subtasks[1][1].id = old.subtasks[1][1].id
          /\ new.subtasks[1][1].id \in RootIds(existing_tasks)
          /\ new.subtasks[1][1].created # old.subtasks[1][1].created
          /\ \E t \in Range(new.subtasks[1]) :
                 t.updated = Some(DaysFromCivil(2024, 3, 4))

\* C27 (a line without an id is a new record): after a run of the command,
\* the output record of every root task line written without an id attribute
\* is newly created: its created is the parsed or default creation date, its
\* extra is absent, and its identifier is that of no stored record.
C27_UnlabeledLineIsNewRecord ==
    CommandDone =>
        \A k \in DOMAIN final_tasks :
            ExplicitId(TaskLines[parse_result.tasks[k].display_order]) = None =>
                /\ final_tasks[k].created = parse_result.tasks[k].created
                /\ final_tasks[k].extra = None
                /\ final_tasks[k].id \notin RootIds(existing_tasks)

-----------------------------------------------------------------------------
(* Properties of the assembled forest *)

\* C29 (no task lost or duplicated): for every document that parses, the
\* forest read depth-first, parent before subtasks, is the sequence of the
\* task lines of the document: as many tasks as task lines, and the k-th
\* task has the name, the status and (when one is written) the identifier of
\* the k-th task line.
C29_ForestIsTheTaskLines ==
    Parsed =>
        LET flat == Flatten(parse_result.tasks) IN
        /\ Len(flat) = Len(TaskLines)
        /\ \A k \in DOMAIN flat :
              /\ flat[k].name = TaskLines[k].name
              /\ flat[k].status = (IF TaskLines[k].status_char = "x"
                                   THEN "done" ELSE "open")
              /\ ExplicitId(TaskLines[k]) # None =>
                     flat[k].id = ExplicitId(TaskLines[k])[1]

\* a root, its subtask and a second subtask, as in the test at
\* markdown_parser.rs:643-672: three task lines, three tasks
C29_Witness ==
    /\ Parsed
    /\ Len(TaskLines) = 3
    /\ Len(parse_result.tasks) = 1
    /\ Len(parse_result.tasks[1].subtasks[1]) = 2
    /\ ExplicitId(TaskLines[3]) = Some(2)
    /\ parse_result.tasks[1].subtasks[1][2].id = 2

-----------------------------------------------------------------------------
(* Properties of the tree assembly loop *)

\* C28 (pointer validity): between any two passes of the assembly loop, no
\* pointer held on the parent stack is stale, that is, no task was appended
\* to a vector while a pointer to an element of that vector was on the
\* stack; every pointer leads to a task of result_tasks, and the levels on
\* the stack increase from the bottom to the top.
C28_PointersValid ==
    pc = "assembling" =>
        \A j \in DOMAIN loop_stack :
            /\ ~loop_stack[j].stale
            /\ TaskAt(loop_result, loop_stack[j].ptr).name = "T"
            /\ j > 1 => /\ loop_stack[j - 1].level < loop_stack[j].level
                        /\ VectorOf(loop_stack[j].ptr) = loop_stack[j - 1].ptr

\* a second task was appended to the subtasks of a root, after the pointer
\* to the first one had been popped, and the root's pointer is still held
C28_Witness ==
    /\ pc = "assembling"
    /\ Len(loop_stack) = 2
    /\ loop_stack[1].ptr = <<1>>
    /\ loop_stack[2].ptr = <<1, 2>>
    /\ Len(loop_result[1].subtasks[1]) = 2

====
